---- MODULE Spec2Model ----
(***************************************************************************)
(* A model of mdconverter's conversion orchestration layer:                *)
(*   - ConversionCache       (core/cache.py)                               *)
(*   - ConverterRegistry     (core/registry.py, core/__init__.py)          *)
(*   - the converters' convert methods (core/gemini.py, core/pandoc.py,    *)
(*     core/llamaparse.py)                                                 *)
(*   - the batch driver of the convert command (cli.py)                    *)
(* Each component has its own specification (CacheSpec, RegistrySpec,      *)
(* ConvertSpec, BatchSpec); the variables of the other components stay at  *)
(* their idle values.                                                      *)
(***************************************************************************)
EXTENDS Integers, Sequences, FiniteSets, TLC

VARIABLES
    \* ---- ConversionCache and the file system it works on ----
    srcBytes,     \* resolved source path -> the file's bytes, or NoBytes (missing/unreadable)
    cacheFiles,   \* cache key -> the <key>.md file of the cache directory
    index,        \* ConversionCache._index (in memory)
    diskIndex,    \* the entries of index.json on disk
    cacheLast,    \* history: the cache operation performed last and its path
    expected,     \* history: per resolved path, the content of the latest completed set
                  \* that has not been followed by a byte change, invalidate or clear
    storedFor,    \* history: cache key -> the bytes the source had when the content
                  \* file was written last, "none" without a content file
    \* ---- ConverterRegistry ----
    regOrder,     \* the keys of ConverterRegistry._converters, in dict (insertion) order
    regClass,     \* ConverterRegistry._converters: name -> converter class
    regPriority,  \* ConverterRegistry._priority: name -> priority
    firstOrder,   \* history: the names in the order of their first registration
    lastOrder,    \* history: the names in the order of their latest registration
    regLast,      \* history: the registry operation performed last and its argument
    lastReg,      \* history: per name, the class and the priority handed to the
                  \* latest register call under that name since the last clear
    \* ---- one call of a converter's convert ----
    cvConv,       \* the class of the converter that is called
    cvSrc,        \* the source file: whether it exists, and its suffix
    cvCfg,        \* settings and backend configuration of the converter
    cvPc,         \* "ready", "chain" (inside the fallback loop) or "done"
    cvIdx,        \* the position in self.models of the model tried next
    cvLastError,  \* last_error
    cvCalls,      \* history: the provider.generate calls made, in order, with outcomes
    cvBackendUsed,\* history: whether a provider, HTTP or subprocess call was made
    cvOutFile,    \* the Markdown file at the output path
    cvResult,     \* the ConversionResult returned
    cvProc,       \* the pandoc subprocess: how it ended and what it wrote to stderr
    \* ---- the batch of the convert command ----
    batchSize,    \* len(files)
    semValue,     \* the value of the semaphore sem
    nWaiting,     \* the convert_file_safe tasks that have not entered "async with sem"
    nActive,      \* the tasks inside "async with sem": their conversion is under way
    nFinished,    \* the tasks that left "async with sem"
    nCollected,   \* len(results): the completed tasks process_files has taken
    coroutineAt,  \* the place, in completion order, of the first task that
                  \* returned a coroutine object instead of a result; 0 if none
    batchPc,      \* process_files: "collecting", "returned" or "crashed"
    \* ---- two cache calls running side by side, step by step ----
    stOp,         \* worker -> the call it makes: "set", "invalidate" or "clear"
    stInst,       \* worker -> the ConversionCache instance it calls
    stPc,         \* worker -> where its call is
    stMem,        \* instance -> its _index
    stDisk,       \* index.json in the cache directory
    stTemp,       \* worker -> the temporary file of its _save_index
    stFiles,      \* resolved source path -> its content file in the cache directory
    \* ---- two conversions of the fallback chain, pass by pass ----
    twCfg,        \* the settings both conversions run with
    twRun,        \* conversion -> where it is in the loop and what it returned
    \* ---- one call of a provider's generate ----
    pvProvider,   \* the class of the provider
    pvPc,         \* "ready", "returned" or "raised"
    pvAttempts,   \* history: the outcome of every attempt of the call, in order
    pvReturn,     \* the text generate returned
    pvError,      \* the class of the exception generate raised
    \* ---- the conversions of one file by the convert command ----
    fsTool,       \* the --tool option
    fsSuffix,     \* file.suffix
    fsDirty,      \* whether the file's bytes changed since it was converted last
    fsLog,        \* history: the convert_file_safe calls made for the file
    \* ---- the routing of one GeminiConverter ----
    rtCfg,        \* the settings the converter was built from
    rtLog,        \* history: the _get_provider_for_model calls made, in order
    \* ---- the event handler of the watcher ----
    wtNow,        \* time.time(), in ticks of half a second
    wtLast,       \* ConversionEventHandler._last_triggered, 0 for a path not in it
    wtCalls,      \* history: the on_file_change calls made, with their times
    wtEvents,     \* history: the events handed to the handler, with their times
    \* ---- the output files of a batch ----
    outDir,       \* the --output option, "none" when it is not given
    outBatch,     \* files: the source files of the batch
    outWritten,   \* history: the sources whose conversion wrote its output
    outFailed,    \* history: the sources whose conversion failed
    outFiles      \* the Markdown files on disk: path and the source it was made from

cacheVars == <<srcBytes, cacheFiles, index, diskIndex, cacheLast, expected, storedFor>>

regVars == <<regOrder, regClass, regPriority, firstOrder, lastOrder, regLast,
             lastReg>>

cvVars == <<cvConv, cvSrc, cvCfg, cvPc, cvIdx, cvLastError, cvCalls, cvBackendUsed,
            cvOutFile, cvResult, cvProc>>

batchVars == <<batchSize, semValue, nWaiting, nActive, nFinished, nCollected,
               coroutineAt, batchPc>>

stVars == <<stOp, stInst, stPc, stMem, stDisk, stTemp, stFiles>>

twVars == <<twCfg, twRun>>

pvVars == <<pvProvider, pvPc, pvAttempts, pvReturn, pvError>>

fsVars == <<fsTool, fsSuffix, fsDirty, fsLog>>

rtVars == <<rtCfg, rtLog>>

wtVars == <<wtNow, wtLast, wtCalls, wtEvents>>

outVars == <<outDir, outBatch, outWritten, outFailed, outFiles>>

vars == <<srcBytes, cacheFiles, index, diskIndex, cacheLast, expected, storedFor,
          regOrder, regClass, regPriority, firstOrder, lastOrder, regLast, lastReg,
          cvConv, cvSrc, cvCfg, cvPc, cvIdx, cvLastError, cvCalls, cvBackendUsed,
          cvOutFile, cvResult, cvProc,
          batchSize, semValue, nWaiting, nActive, nFinished, nCollected,
          coroutineAt, batchPc,
          stOp, stInst, stPc, stMem, stDisk, stTemp, stFiles,
          twCfg, twRun,
          pvProvider, pvPc, pvAttempts, pvReturn, pvError,
          fsTool, fsSuffix, fsDirty, fsLog,
          rtCfg, rtLog,
          wtNow, wtLast, wtCalls, wtEvents,
          outDir, outBatch, outWritten, outFailed, outFiles>>

\* what an operation of one component leaves alone: the other components
notCache == <<outVars, wtVars, rtVars, regVars, cvVars, batchVars, stVars, twVars, pvVars, fsVars>>
notRegistry == <<outVars, wtVars, rtVars, cacheVars, cvVars, batchVars, stVars, twVars, pvVars, fsVars>>
notConvert == <<outVars, wtVars, rtVars, cacheVars, regVars, batchVars, stVars, twVars, pvVars, fsVars>>
notBatch == <<outVars, wtVars, rtVars, cacheVars, regVars, cvVars, stVars, twVars, pvVars, fsVars>>
notSteps == <<outVars, wtVars, rtVars, cacheVars, regVars, cvVars, batchVars, twVars, pvVars, fsVars>>
notTwin == <<outVars, wtVars, rtVars, cacheVars, regVars, cvVars, batchVars, stVars, pvVars, fsVars>>
notProvider == <<outVars, wtVars, rtVars, cacheVars, regVars, cvVars, batchVars, stVars, twVars, fsVars>>
notFile == <<outVars, wtVars, rtVars, cacheVars, regVars, cvVars, batchVars, stVars, twVars, pvVars>>
notRoute == <<outVars, wtVars, cacheVars, regVars, cvVars, batchVars, stVars, twVars, pvVars, fsVars>>
notWatch == <<outVars, rtVars, cacheVars, regVars, cvVars, batchVars, stVars, twVars, pvVars, fsVars>>
notOut == <<wtVars, rtVars, cacheVars, regVars, cvVars, batchVars, stVars, twVars, pvVars, fsVars>>

-----------------------------------------------------------------------------
(* Text and files                                                          *)

\* characters of a Markdown text: an ordinary character, carriage return, line feed
Chars == {"x", "CR", "LF"}

\* the contents handed to set
Contents == {<<"x", "LF">>, <<"x", "CR">>}

\* os.linesep on POSIX ("CRLF" on Windows)
linesep == "LF"

\* what open(..., "w", newline=None).write does to one character
WriteChar(ch, sep) ==
    IF ch = "LF" /\ sep = "CRLF" THEN <<"CR", "LF">> ELSE <<ch>>

RECURSIVE WriteText(_, _)
\* Path.write_text(content, encoding="utf-8"): every "\n" becomes os.linesep
WriteText(s, sep) ==
    IF s = <<>> THEN <<>>
    ELSE WriteChar(Head(s), sep) \o WriteText(Tail(s), sep)

RECURSIVE ReadText(_)
\* Path.read_text(encoding="utf-8"): universal newlines, "\r\n" and "\r" become "\n"
ReadText(s) ==
    IF s = <<>> THEN <<>>
    ELSE IF Head(s) = "CR"
         THEN IF Len(s) > 1 /\ s[2] = "LF"
              THEN <<"LF">> \o ReadText(Tail(Tail(s)))
              ELSE <<"LF">> \o ReadText(Tail(s))
         ELSE <<Head(s)>> \o ReadText(Tail(s))

\* a file: absent, or present with its text; mode "denied" is a file that
\* cannot be opened (PermissionError, an OSError)
NoFile == [exists |-> FALSE, text |-> <<>>, mode |-> "ok"]
File(t) == [exists |-> TRUE, text |-> t, mode |-> "ok"]
DeniedFile == [exists |-> TRUE, text |-> <<>>, mode |-> "denied"]

\* the result of get: None, or the cached Markdown
Miss == [hit |-> FALSE, text |-> <<>>]
Hit(t) == [hit |-> TRUE, text |-> t]

-----------------------------------------------------------------------------
(* ConversionCache                                                         *)

\* the paths callers pass; link_a.pdf is a symbolic link to a.pdf
Paths == {"a.pdf", "link_a.pdf", "b.pdf"}

\* Path.resolve()
Resolve(p) == IF p = "link_a.pdf" THEN "a.pdf" ELSE p

Keys == {Resolve(p) : p \in Paths}

Bytes == {"bytes1", "bytes2"}
NoBytes == "unreadable"

Tools == {"pandoc"}

\* sha256 of the bytes, first 32 hex digits (distinct bytes, distinct digests)
HashOfBytes(b) == IF b = "bytes1" THEN "h1" ELSE "h2"

\* ConversionCache.get_file_hash; raises OSError when the file cannot be read
Readable(p) == srcBytes[Resolve(p)] # NoBytes
get_file_hash(p) == HashOfBytes(srcBytes[Resolve(p)])

\* mutant of get_cache_key: one key for every path
get_cache_key_shared(p) == "key_a"

\* ConversionCache._get_cache_key: sha256 of the resolved path, first 32 hex digits
get_cache_key(p) == IF Resolve(p) = "a.pdf" THEN "key_a" ELSE "key_b"

CacheKeys == {get_cache_key(p) : p \in Paths}

\* cache_file.read_text(encoding="utf-8") under "except OSError: pass"
ReadCacheFile(cache_file) ==
    IF ~cache_file.exists \/ cache_file.mode = "denied" THEN Miss
    ELSE Hit(ReadText(cache_file.text))

\* mutant of cache_get: the stored hash is not compared with the file's current hash
cache_get_no_hash_check(p) ==
    IF ~Readable(p) THEN Miss
    ELSE LET key == Resolve(p) IN
         IF key \in DOMAIN index
         THEN ReadCacheFile(cacheFiles[get_cache_key(p)])
         ELSE Miss

\* mutant of cache_get: the OSError of reading the content file is not caught
\* and what the index names is handed back
cache_get_trusting_index(p) ==
    IF ~Readable(p) THEN Miss
    ELSE LET key == Resolve(p) IN
         IF key \in DOMAIN index /\ index[key].hash = get_file_hash(p)
         THEN Hit(ReadText(cacheFiles[get_cache_key(p)].text))
         ELSE Miss

\* ConversionCache.get, as a function of the current state
cache_get(p) ==
    IF ~Readable(p) THEN Miss
    ELSE LET key == Resolve(p) IN
         IF key \in DOMAIN index /\ index[key].hash = get_file_hash(p)
         THEN ReadCacheFile(cacheFiles[get_cache_key(p)])
         ELSE Miss

\* self._index[key] = {...}
IndexPut(idx, key, entry) ==
    [k \in DOMAIN idx \cup {key} |-> IF k = key THEN entry ELSE idx[k]]

\* mutant of IndexPop: the entry stays in the index
IndexPopNothing(idx, key) == idx

\* self._index.pop(key)
IndexPop(idx, key) == [k \in DOMAIN idx \ {key} |-> idx[k]]

EmptyIndex == [k \in {} |-> 0]

\* ConversionCache._save_index: temp file, then rename; an OSError is swallowed
SaveIndex(idx, fault) == IF fault = "save" THEN diskIndex ELSE idx

SetFaults == {"none", "open", "write", "save"}

\* the latest call: the operation, its path argument, what it returned, and
\* the I/O step of it that failed with an OSError ("none" when none did)
Op(op, p, result, io) == [op |-> op, path |-> p, result |-> result, io |-> io]

\* ConversionCache.set
CacheSet(p, c, t, fault) ==
    LET key == Resolve(p)
        ck  == get_cache_key(p)
    IN
    /\ IF ~Readable(p)
       THEN \* can't hash the source: skip caching
            /\ cacheLast' = Op("set", p, "none", "hash")
            /\ UNCHANGED <<cacheFiles, index, diskIndex, storedFor>>
            /\ expected' = [expected EXCEPT ![key] = Miss]
       ELSE IF fault = "open" \/ cacheFiles[ck].mode = "denied"
       THEN \* write_text fails before the file is opened for writing
            /\ cacheLast' = Op("set", p, "none", "open")
            /\ UNCHANGED <<cacheFiles, index, diskIndex, storedFor>>
            /\ expected' = [expected EXCEPT ![key] = Miss]
       ELSE IF fault = "write"
       THEN \* write_text fails after open(..., "w") truncated the file
            /\ cacheLast' = Op("set", p, "none", "write")
            /\ cacheFiles' = [cacheFiles EXCEPT ![ck] = File(<<>>)]
            /\ storedFor' = [storedFor EXCEPT ![ck] = srcBytes[key]]
            /\ UNCHANGED <<index, diskIndex>>
            /\ expected' = [expected EXCEPT ![key] = Miss]
       ELSE /\ cacheLast' = Op("set", p, "none", fault)
            /\ cacheFiles' = [cacheFiles EXCEPT ![ck] = File(WriteText(c, linesep))]
            /\ storedFor' = [storedFor EXCEPT ![ck] = srcBytes[key]]
            /\ index' = IndexPut(index, key,
                          [hash |-> get_file_hash(p), cache_key |-> ck, tool_used |-> t])
            /\ diskIndex' = SaveIndex(index', fault)
            /\ expected' = [expected EXCEPT ![key] = Hit(c)]
    /\ UNCHANGED srcBytes
    /\ UNCHANGED notCache

\* a call of ConversionCache.get
CacheGet(p) ==
    /\ cacheLast' = Op("get", p, "none", "none")
    /\ UNCHANGED <<srcBytes, cacheFiles, index, diskIndex, expected, storedFor>>
    /\ UNCHANGED notCache

RemoveFaults == {"none", "unlink", "save"}

\* a content file that is gone was written for no bytes
StoredAfter(files) ==
    [k \in DOMAIN storedFor |-> IF files[k].exists THEN storedFor[k] ELSE "none"]

\* mutant of Unlink: the content files are left in place
UnlinkNothing(files, cks, fault) == files

\* cache_file.unlink(missing_ok=True), an OSError is swallowed
Unlink(files, cks, fault) ==
    [k \in DOMAIN files |-> IF k \in cks /\ fault # "unlink" THEN NoFile ELSE files[k]]

\* ConversionCache.invalidate
CacheInvalidate(p, fault) ==
    LET key == Resolve(p) IN
    /\ cacheLast' = Op("invalidate", p, key \in DOMAIN index,
                        IF key \in DOMAIN index THEN fault ELSE "none")
    /\ IF key \in DOMAIN index
       THEN /\ index' = IndexPop(index, key)
            /\ cacheFiles' = Unlink(cacheFiles, {index[key].cache_key}, fault)
            /\ storedFor' = StoredAfter(cacheFiles')
            /\ diskIndex' = SaveIndex(index', fault)
       ELSE UNCHANGED <<index, cacheFiles, diskIndex, storedFor>>
    /\ expected' = [expected EXCEPT ![key] = Miss]
    /\ UNCHANGED srcBytes
    /\ UNCHANGED notCache

\* ConversionCache.clear
CacheClear(fault) ==
    /\ cacheLast' = Op("clear", "a.pdf", Cardinality(DOMAIN index),
                        IF fault = "unlink" /\ index = EmptyIndex THEN "none" ELSE fault)
    /\ cacheFiles' = Unlink(cacheFiles, {index[k].cache_key : k \in DOMAIN index}, fault)
    /\ storedFor' = StoredAfter(cacheFiles')
    /\ index' = EmptyIndex
    /\ diskIndex' = SaveIndex(index', fault)
    /\ expected' = [k \in Keys |-> Miss]
    /\ UNCHANGED srcBytes
    /\ UNCHANGED notCache

\* the source files the environment touches while the cache is in use
Volatile == {"a.pdf"}

\* the environment rewrites, deletes or recreates a source file
MutateSource(k, b) ==
    /\ k \in Volatile
    /\ srcBytes[k] # b
    /\ srcBytes' = [srcBytes EXCEPT ![k] = b]
    /\ cacheLast' = Op("mutate", k, "none", "none")
    /\ expected' = [expected EXCEPT ![k] = Miss]
    /\ UNCHANGED <<cacheFiles, index, diskIndex, storedFor>>
    /\ UNCHANGED notCache

\* what the environment can do to a content file of the cache directory
Damages == {NoFile, DeniedFile}

\* the environment deletes a content file or takes its permissions away
DamageCacheFile(k, f) ==
    /\ cacheFiles[get_cache_key(k)].exists
    /\ cacheFiles[get_cache_key(k)] # f
    /\ cacheFiles' = [cacheFiles EXCEPT ![get_cache_key(k)] = f]
    /\ storedFor' = StoredAfter(cacheFiles')
    /\ cacheLast' = Op("damage", k, "none", "none")
    /\ expected' = [expected EXCEPT ![k] = Miss]
    /\ UNCHANGED <<srcBytes, index, diskIndex>>
    /\ UNCHANGED notCache

\* the process ends, by a crash or regularly, and a later one builds a
\* ConversionCache on the same directory: _load_index reads index.json, the
\* content files are what they are
CacheRestart ==
    /\ index' = diskIndex
    /\ cacheLast' = Op("init", "a.pdf", "none", "none")
    /\ expected' = [k \in Keys |-> Miss]
    /\ UNCHANGED <<srcBytes, cacheFiles, diskIndex, storedFor>>
    /\ UNCHANGED notCache

\* ConversionCache.__init__ on a fresh cache directory
CacheFresh ==
    /\ cacheFiles = [k \in CacheKeys |-> NoFile]
    /\ index = EmptyIndex
    /\ diskIndex = EmptyIndex
    /\ cacheLast = Op("init", "a.pdf", "none", "none")
    /\ expected = [k \in Keys |-> Miss]
    /\ storedFor = [k \in CacheKeys |-> "none"]

\* a fresh cache; the source files exist
CacheInit ==
    /\ srcBytes \in [Keys -> Bytes]
    /\ \A k \in Keys \ Volatile : srcBytes[k] = "bytes1"
    /\ CacheFresh

\* the cache while another component is looked at
CacheIdle ==
    /\ srcBytes = [k \in Keys |-> "bytes1"]
    /\ CacheFresh

\* the cache over several runs of the program
RestartNext ==
    \/ \E p \in Paths, c \in Contents, t \in Tools, f \in SetFaults : CacheSet(p, c, t, f)
    \/ \E p \in Paths : CacheGet(p)
    \/ \E k \in Keys, b \in Bytes \cup {NoBytes} : MutateSource(k, b)
    \/ CacheRestart

CacheNext ==
    \/ \E p \in Paths, c \in Contents, t \in Tools, f \in SetFaults : CacheSet(p, c, t, f)
    \/ \E p \in Paths : CacheGet(p)
    \/ \E p \in Paths, f \in RemoveFaults : CacheInvalidate(p, f)
    \/ \E f \in RemoveFaults : CacheClear(f)
    \/ \E k \in Keys, b \in Bytes \cup {NoBytes} : MutateSource(k, b)
    \/ \E k \in Keys, f \in Damages : DamageCacheFile(k, f)

-----------------------------------------------------------------------------
(* ConversionCache, step by step: two calls side by side on one directory  *)

\* the two parallel conversions
Workers == {1, 2}

\* the ConversionCache objects: the workers share one, or each has its own
Instances == {1, 2}

\* worker 1 converts a.pdf, worker 2 converts b.pdf
FileOf(w) == IF w = 1 THEN "a.pdf" ELSE "b.pdf"

\* the Markdown each worker hands to set
ContentOf(w) == IF w = 1 THEN <<"x", "LF">> ELSE <<"x", "x", "LF">>

\* a file holding a JSON document: "partial" is a file whose JSON text is
\* not complete yet
NoJson == [state |-> "absent", entries |-> EmptyIndex]
PartialJson(idx) == [state |-> "partial", entries |-> idx]
CompleteJson(idx) == [state |-> "complete", entries |-> idx]

\* ConversionCache._load_index: no file or no valid JSON gives {}
load_index(file) == IF file.state = "complete" THEN file.entries ELSE EmptyIndex

\* the entry set stores for a worker's file
EntryOf(w) ==
    [hash |-> HashOfBytes("bytes1"), cache_key |-> get_cache_key(FileOf(w)),
     tool_used |-> "pandoc"]

\* an index left by an earlier run: both files cached
BothCached == [k \in Keys |-> [hash |-> HashOfBytes("bytes1"),
                               cache_key |-> get_cache_key(k),
                               tool_used |-> "pandoc"]]

\* mutant of SaveTarget: json.dump writes index.json in place
SaveInPlace(temp_path, index_path) == index_path

\* _save_index: json.dump writes the file mkstemp made, not index.json
SaveTarget(temp_path, index_path) == temp_path

\* set: file_hash = self.get_file_hash(source_path)
SetHash(w) ==
    /\ stOp[w] = "set" /\ stPc[w] = "start"
    /\ stPc' = [stPc EXCEPT ![w] = "hashed"]
    /\ UNCHANGED <<stOp, stInst, stMem, stDisk, stTemp, stFiles>>
    /\ UNCHANGED notSteps

\* set: cache_file.write_text(content, encoding="utf-8")
SetWriteFile(w) ==
    /\ stOp[w] = "set" /\ stPc[w] = "hashed"
    /\ stFiles' = [stFiles EXCEPT ![FileOf(w)] = File(WriteText(ContentOf(w), linesep))]
    /\ stPc' = [stPc EXCEPT ![w] = "written"]
    /\ UNCHANGED <<stOp, stInst, stMem, stDisk, stTemp>>
    /\ UNCHANGED notSteps

\* set: self._index[key] = {...}
SetIndexPut(w) ==
    /\ stOp[w] = "set" /\ stPc[w] = "written"
    /\ stMem' = [stMem EXCEPT ![stInst[w]] = IndexPut(@, FileOf(w), EntryOf(w))]
    /\ stPc' = [stPc EXCEPT ![w] = "save"]
    /\ UNCHANGED <<stOp, stInst, stDisk, stTemp, stFiles>>
    /\ UNCHANGED notSteps

\* invalidate: if key in self._index: entry = self._index.pop(key); else return False
InvalidatePop(w) ==
    /\ stOp[w] = "invalidate" /\ stPc[w] = "start"
    /\ IF FileOf(w) \in DOMAIN stMem[stInst[w]]
       THEN /\ stMem' = [stMem EXCEPT ![stInst[w]] = IndexPop(@, FileOf(w))]
            /\ stPc' = [stPc EXCEPT ![w] = "popped"]
       ELSE /\ stPc' = [stPc EXCEPT ![w] = "done"]
            /\ UNCHANGED stMem
    /\ UNCHANGED <<stOp, stInst, stDisk, stTemp, stFiles>>
    /\ UNCHANGED notSteps

\* invalidate: cache_file.unlink(missing_ok=True)
InvalidateUnlink(w) ==
    /\ stOp[w] = "invalidate" /\ stPc[w] = "popped"
    /\ stFiles' = [stFiles EXCEPT ![FileOf(w)] = NoFile]
    /\ stPc' = [stPc EXCEPT ![w] = "save"]
    /\ UNCHANGED <<stOp, stInst, stMem, stDisk, stTemp>>
    /\ UNCHANGED notSteps

\* clear: the loop that unlinks the content file of every entry
ClearUnlink(w) ==
    /\ stOp[w] = "clear" /\ stPc[w] = "start"
    /\ stFiles' = [k \in Keys |-> IF k \in DOMAIN stMem[stInst[w]] THEN NoFile
                                  ELSE stFiles[k]]
    /\ stPc' = [stPc EXCEPT ![w] = "unlinked"]
    /\ UNCHANGED <<stOp, stInst, stMem, stDisk, stTemp>>
    /\ UNCHANGED notSteps

\* clear: self._index = {}
ClearIndex(w) ==
    /\ stOp[w] = "clear" /\ stPc[w] = "unlinked"
    /\ stMem' = [stMem EXCEPT ![stInst[w]] = EmptyIndex]
    /\ stPc' = [stPc EXCEPT ![w] = "save"]
    /\ UNCHANGED <<stOp, stInst, stDisk, stTemp, stFiles>>
    /\ UNCHANGED notSteps

\* _save_index: tempfile.mkstemp(dir=self.cache_dir, suffix=".tmp")
MkTemp(w) ==
    /\ stPc[w] = "save"
    /\ stTemp' = [stTemp EXCEPT ![w] = PartialJson(EmptyIndex)]
    /\ stPc' = [stPc EXCEPT ![w] = "temp"]
    /\ UNCHANGED <<stOp, stInst, stMem, stDisk, stFiles>>
    /\ UNCHANGED notSteps

\* _save_index: json.dump starts to walk self._index and to write
DumpStart(w) ==
    /\ stPc[w] = "temp"
    /\ IF SaveTarget("temp", "index") = "temp"
       THEN /\ stTemp' = [stTemp EXCEPT ![w] = PartialJson(stMem[stInst[w]])]
            /\ UNCHANGED stDisk
       ELSE /\ stDisk' = PartialJson(stMem[stInst[w]])
            /\ UNCHANGED stTemp
    /\ stPc' = [stPc EXCEPT ![w] = "dumping"]
    /\ UNCHANGED <<stOp, stInst, stMem, stFiles>>
    /\ UNCHANGED notSteps

\* _save_index: json.dump ends and the file is closed; when another thread
\* added or removed a key of the same dict meanwhile, the walk raises
\* RuntimeError (dictionary changed size during iteration), which "except
\* OSError" lets through after the temporary file is unlinked
DumpEnd(w) ==
    /\ stPc[w] = "dumping"
    /\ LET walked == IF SaveTarget("temp", "index") = "temp"
                     THEN stTemp[w].entries ELSE stDisk.entries
       IN
       IF DOMAIN stMem[stInst[w]] # DOMAIN walked
       THEN /\ stTemp' = [stTemp EXCEPT ![w] = NoJson]
            /\ stPc' = [stPc EXCEPT ![w] = "raised"]
            /\ UNCHANGED stDisk
       ELSE /\ IF SaveTarget("temp", "index") = "temp"
               THEN /\ stTemp' = [stTemp EXCEPT ![w] = CompleteJson(walked)]
                    /\ UNCHANGED stDisk
               ELSE /\ stDisk' = CompleteJson(walked)
                    /\ UNCHANGED stTemp
            /\ stPc' = [stPc EXCEPT ![w] = "dumped"]
    /\ UNCHANGED <<stOp, stInst, stMem, stFiles>>
    /\ UNCHANGED notSteps

\* _save_index: Path(temp_path).replace(self.index_path), and the call returns
Replace(w) ==
    /\ stPc[w] = "dumped"
    /\ IF SaveTarget("temp", "index") = "temp"
       THEN stDisk' = stTemp[w]
       ELSE UNCHANGED stDisk
    /\ stTemp' = [stTemp EXCEPT ![w] = NoJson]
    /\ stPc' = [stPc EXCEPT ![w] = "done"]
    /\ UNCHANGED <<stOp, stInst, stMem, stFiles>>
    /\ UNCHANGED notSteps

\* the process is killed while a call is under way
Crash ==
    /\ \E w \in Workers : stPc[w] \notin {"start", "done", "raised", "crashed"}
    /\ stPc' = [w \in Workers |-> "crashed"]
    /\ UNCHANGED <<stOp, stInst, stMem, stDisk, stTemp, stFiles>>
    /\ UNCHANGED notSteps

\* ConversionCache.__init__ of every instance is over; the directory is
\* fresh or holds the index and the content files of an earlier run
StepsInit ==
    /\ stOp \in [Workers -> {"set", "invalidate", "clear"}]
    /\ stInst \in {[w \in Workers |-> 1], [w \in Workers |-> w]}
    /\ stPc = [w \in Workers |-> "start"]
    /\ \/ /\ stDisk = NoJson
          /\ stFiles = [k \in Keys |-> NoFile]
       \/ /\ stDisk = CompleteJson(BothCached)
          /\ stFiles = [k \in Keys |-> File(<<"x">>)]
    /\ stMem = [i \in Instances |-> load_index(stDisk)]
    /\ stTemp = [w \in Workers |-> NoJson]

\* no cache call under way
StepsIdle ==
    /\ stOp = [w \in Workers |-> "set"]
    /\ stInst = [w \in Workers |-> 1]
    /\ stPc = [w \in Workers |-> "done"]
    /\ stDisk = NoJson
    /\ stFiles = [k \in Keys |-> NoFile]
    /\ stMem = [i \in Instances |-> EmptyIndex]
    /\ stTemp = [w \in Workers |-> NoJson]

StepsNext ==
    \/ \E w \in Workers : SetHash(w)
    \/ \E w \in Workers : SetWriteFile(w)
    \/ \E w \in Workers : SetIndexPut(w)
    \/ \E w \in Workers : InvalidatePop(w)
    \/ \E w \in Workers : InvalidateUnlink(w)
    \/ \E w \in Workers : ClearUnlink(w)
    \/ \E w \in Workers : ClearIndex(w)
    \/ \E w \in Workers : MkTemp(w)
    \/ \E w \in Workers : DumpStart(w)
    \/ \E w \in Workers : DumpEnd(w)
    \/ \E w \in Workers : Replace(w)
    \/ Crash

-----------------------------------------------------------------------------
(* ConverterRegistry                                                       *)

Names == {"pandoc", "llm", "llamaparse"}
Classes == {"PandocConverter", "LLMConverter", "LlamaParseConverter"}
Priorities == {10, 30, 50}

\* the priorities handed to the register calls made after the import
NewPriorities == {10, 50}

\* the extensions callers ask for
Exts == {".docx", ".pdf", ".PDF", ".xyz"}

\* str.lower()
Lower(ext) == IF ext = ".PDF" THEN ".pdf" ELSE ext

\* SUPPORTED_EXTENSIONS of each converter class
SUPPORTED_EXTENSIONS(class) ==
    CASE class = "PandocConverter" ->
             {".docx", ".doc", ".html", ".htm", ".rtf", ".odt", ".epub"}
      [] class = "LLMConverter" ->
             {".pdf", ".docx", ".pptx", ".xlsx", ".png", ".jpg", ".jpeg"}
      [] class = "LlamaParseConverter" ->
             {".pdf", ".docx", ".pptx", ".xlsx", ".html", ".epub"}

\* <converter>.supports(file_extension)
supports(class, ext) == Lower(ext) \in SUPPORTED_EXTENSIONS(class)

Range(seq) == {seq[i] : i \in 1..Len(seq)}

RECURSIVE Without(_, _)
\* seq with every occurrence of x removed, the order of the rest kept
Without(seq, x) ==
    IF seq = <<>> THEN <<>>
    ELSE IF Head(seq) = x THEN Without(Tail(seq), x)
         ELSE <<Head(seq)>> \o Without(Tail(seq), x)

\* mutant of DictKeysAfterSet: a key that is set again moves to the end
DictKeysMoveToEnd(order, name) == Append(Without(order, name), name)

\* the key order of a dict after d[name] = v: a new key is appended, a key that
\* is already there keeps its place
DictKeysAfterSet(order, name) ==
    IF name \in Range(order) THEN order ELSE Append(order, name)

EmptyMap == [n \in {} |-> 0]

\* mutant of MapPut: the value of a key that is already there is kept
MapPutKeepFirst(m, k, v) ==
    [x \in DOMAIN m \cup {k} |-> IF x \in DOMAIN m THEN m[x] ELSE v]

\* d[k] = v
MapPut(m, k, v) == [x \in DOMAIN m \cup {k} |-> IF x = k THEN v ELSE m[x]]

RECURSIVE InsertByPriority(_, _)
\* insert candidate c = <<name, priority>> into a list sorted by priority, after
\* every element with a priority not greater than its own
InsertByPriority(sorted, c) ==
    IF sorted = <<>> THEN <<c>>
    ELSE IF Head(sorted)[2] <= c[2]
         THEN <<Head(sorted)>> \o InsertByPriority(Tail(sorted), c)
         ELSE <<c>> \o sorted

RECURSIVE SortByPriority(_)
\* candidates.sort(key=lambda x: x[1]): a stable sort, ascending
SortByPriority(cands) ==
    IF cands = <<>> THEN <<>>
    ELSE InsertByPriority(SortByPriority(SubSeq(cands, 1, Len(cands) - 1)),
                          cands[Len(cands)])

RECURSIVE Candidates(_, _)
\* the loop over cls._converters.items(): (name, priority) of every converter
\* whose probe instance supports the extension, in dict order
Candidates(order, ext) ==
    IF order = <<>> THEN <<>>
    ELSE (IF supports(regClass[Head(order)], ext)
          THEN <<<<Head(order), regPriority[Head(order)]>>>>
          ELSE <<>>) \o Candidates(Tail(order), ext)

\* the messages of the two ValueErrors the registry raises
UnknownConverter == "Unknown converter"
NoConverterSupports == "No converter supports extension"

Raised(error) == [raised |-> TRUE, name |-> "", class |-> "", error |-> error]
Instance(name, class) ==
    [raised |-> FALSE, name |-> name, class |-> class, error |-> ""]

\* what dict.get gives for a key that is not there
None == "None"

\* ConverterRegistry.get
get(name) == IF name \in DOMAIN regClass THEN regClass[name] ELSE None

\* mutant of create: an unknown name gives an instance of the first registered
\* converter, or of PandocConverter when nothing is registered
create_with_fallback(name) ==
    IF name \in DOMAIN regClass THEN Instance(name, regClass[name])
    ELSE IF regOrder # <<>> THEN Instance(regOrder[1], regClass[regOrder[1]])
         ELSE Instance("pandoc", "PandocConverter")

\* ConverterRegistry.create
create(name) ==
    IF name \in DOMAIN regClass THEN Instance(name, regClass[name])
    ELSE Raised(UnknownConverter)

\* mutant of auto_select: the candidates are not sorted
auto_select_unsorted(extension) ==
    LET candidates == Candidates(regOrder, Lower(extension)) IN
    IF candidates = <<>> THEN Raised(NoConverterSupports)
    ELSE create(candidates[1][1])

\* ConverterRegistry.auto_select
auto_select(extension) ==
    LET candidates == Candidates(regOrder, Lower(extension)) IN
    IF candidates = <<>> THEN Raised(NoConverterSupports)
    ELSE create(SortByPriority(candidates)[1][1])

RegOp(op, arg) == [op |-> op, arg |-> arg]

\* ConverterRegistry.register(name, priority)(converter_class)
Register(name, priority, class) ==
    /\ regOrder' = DictKeysAfterSet(regOrder, name)
    /\ regClass' = MapPut(regClass, name, class)
    /\ regPriority' = MapPut(regPriority, name, priority)
    /\ firstOrder' = IF name \in Range(firstOrder) THEN firstOrder
                     ELSE Append(firstOrder, name)
    /\ lastOrder' = Append(Without(lastOrder, name), name)
    /\ regLast' = RegOp("register", name)
    /\ lastReg' = [n \in DOMAIN lastReg \cup {name} |->
                      IF n = name THEN [class |-> class, priority |-> priority]
                      ELSE lastReg[n]]
    /\ UNCHANGED notRegistry

\* a call of ConverterRegistry.get
Get(name) ==
    /\ regLast' = RegOp("get", name)
    /\ UNCHANGED <<regOrder, regClass, regPriority, firstOrder, lastOrder, lastReg>>
    /\ UNCHANGED notRegistry

\* a call of ConverterRegistry.create
Create(name) ==
    /\ regLast' = RegOp("create", name)
    /\ UNCHANGED <<regOrder, regClass, regPriority, firstOrder, lastOrder, lastReg>>
    /\ UNCHANGED notRegistry

\* a call of ConverterRegistry.auto_select
AutoSelect(ext) ==
    /\ regLast' = RegOp("auto_select", ext)
    /\ UNCHANGED <<regOrder, regClass, regPriority, firstOrder, lastOrder, lastReg>>
    /\ UNCHANGED notRegistry

\* ConverterRegistry.clear
RegistryClear ==
    /\ regOrder' = <<>>
    /\ regClass' = EmptyMap
    /\ regPriority' = EmptyMap
    /\ firstOrder' = <<>>
    /\ lastOrder' = <<>>
    /\ regLast' = RegOp("clear", "")
    /\ lastReg' = EmptyMap
    /\ UNCHANGED notRegistry

\* the built-in registrations of mdconverter.core
RegistryInit ==
    /\ regOrder = <<"pandoc", "llm", "llamaparse">>
    /\ regClass = [n \in Names |->
                     CASE n = "pandoc" -> "PandocConverter"
                       [] n = "llm" -> "LLMConverter"
                       [] n = "llamaparse" -> "LlamaParseConverter"]
    /\ regPriority = [n \in Names |->
                        CASE n = "pandoc" -> 10
                          [] n = "llm" -> 50
                          [] n = "llamaparse" -> 30]
    /\ firstOrder = <<"pandoc", "llm", "llamaparse">>
    /\ lastOrder = <<"pandoc", "llm", "llamaparse">>
    /\ regLast = RegOp("init", "")
    /\ lastReg = [n \in Names |->
                    CASE n = "pandoc" -> [class |-> "PandocConverter", priority |-> 10]
                      [] n = "llm" -> [class |-> "LLMConverter", priority |-> 50]
                      [] n = "llamaparse" ->
                            [class |-> "LlamaParseConverter", priority |-> 30]]

RegistryNext ==
    \/ \E n \in Names, pr \in NewPriorities, cl \in Classes : Register(n, pr, cl)
    \/ \E n \in Names : Get(n)
    \/ \E n \in Names : Create(n)
    \/ \E e \in Exts : AutoSelect(e)
    \/ RegistryClear

-----------------------------------------------------------------------------
(* The converters: GeminiConverter (registered as LLMConverter),           *)
(* PandocConverter, LlamaParseConverter                                    *)

\* model names, as the pieces the routing looks for and the rest of the name
ModelNames ==
    {<<"gemini", "-2.0-flash-exp">>, <<"deepseek", "-chat">>,
     <<"llama", "-3.3-70b-versatile">>}

\* the longest fallback chain looked at
MaxModels == 3

\* settings.models: the chains of distinct models
Chains ==
    UNION {{ch \in [1..n -> ModelNames] :
               \A i \in 1..n, j \in 1..n : ch[i] = ch[j] => i = j} : n \in 0..MaxModels}

\* settings.min_content_length: an int without a lower limit
MinLens == {-1, 1, 3}

\* what a provider's generate returns when it returns
GeneratedTexts == {<<>>, <<"x">>, <<"x", "x", "x">>, <<"-", "-", "-", "x">>}

\* str(e) of an exception; it can be empty
Errors == {<<>>, <<"boom">>}

\* the suffixes of the source files
Suffixes == {".pdf", ".html", ".txt"}

\* substring in model
Contains(model, word) == word \in Range(model)

\* mutant of get_provider_for_model: a provider object exists for every
\* vendor, with or without a key
get_provider_always(model, cfg) ==
    IF Contains(model, "deepseek") THEN "deepseek_provider"
    ELSE IF Contains(model, "llama") \/ Contains(model, "mixtral") \/ Contains(model, "gemma")
         THEN "groq_provider"
         ELSE "gemini_provider"

\* mutant of get_provider_for_model: the Groq words are looked for first
get_provider_groq_first(model, cfg) ==
    IF Contains(model, "llama") \/ Contains(model, "mixtral") \/ Contains(model, "gemma")
    THEN (IF cfg.groq_api_key THEN "groq_provider" ELSE "none")
    ELSE IF Contains(model, "deepseek")
         THEN (IF cfg.deepseek_api_key THEN "deepseek_provider" ELSE "none")
         ELSE "gemini_provider"

\* GeminiConverter._get_provider_for_model: the provider, "none" without a key
get_provider_for_model(model, cfg) ==
    IF Contains(model, "deepseek")
    THEN (IF cfg.deepseek_api_key THEN "deepseek_provider" ELSE "none")
    ELSE IF Contains(model, "llama") \/ Contains(model, "mixtral") \/ Contains(model, "gemma")
         THEN (IF cfg.groq_api_key THEN "groq_provider" ELSE "none")
         ELSE "gemini_provider"

\* content.startswith("---")
StartsWithDashes(content) ==
    Len(content) >= 3 /\ content[1] = "-" /\ content[2] = "-" /\ content[3] = "-"

\* BaseConverter.add_frontmatter
add_frontmatter(content, suffix, tool) ==
    IF StartsWithDashes(content) THEN content
    ELSE <<"-", "-", "-", "source_file: ", suffix, "conversion_tool: ">> \o tool
             \o <<"-", "-", "-", "LF", "LF">> \o content

\* a run of 1000 plain ASCII letters and a run of 1000 accented letters, each
\* written as one element of a text
Blob == "x1000"
AccentBlob == "e-acute1000"
BlobLen == 1000

\* the number of characters an element of a text stands for
CharLen(ch) == IF ch \in {Blob, AccentBlob} THEN BlobLen ELSE 1

RECURSIVE StrLen(_)
\* len(content)
StrLen(content) ==
    IF content = <<>> THEN 0 ELSE CharLen(Head(content)) + StrLen(Tail(content))

\* sub in content
HasSub(content, sub) ==
    \E i \in 1..(Len(content) - Len(sub) + 1) :
        SubSeq(content, i, i + Len(sub) - 1) = sub

\* the characters with ord(c) > 127, and those among them with ord(c) > 65535
NonAscii == {"e-acute", "emoji", AccentBlob}
Astral == {"emoji"}

RECURSIVE CountIn(_, _)
\* sum(1 for c in content if ord(c) > 127)
CountIn(content, set) ==
    IF content = <<>> THEN 0
    ELSE (IF Head(content) \in set THEN CharLen(Head(content)) ELSE 0)
         + CountIn(Tail(content), set)

Bonus(cond, points) == IF cond THEN points ELSE 0

Min(a, b) == IF a <= b THEN a ELSE b
Max(a, b) == IF a >= b THEN a ELSE b

\* _calculate_quality of GeminiConverter, PandocConverter and LlamaParseConverter
calculate_quality(class, content) ==
    LET len == StrLen(content)
        h2 == HasSub(content, <<"#", "#">>)
        h3 == HasSub(content, <<"#", "#", "#">>)
        bar == HasSub(content, <<"|">>)
        table == bar /\ HasSub(content, <<"-", "|", "-">>)
    IN
    CASE class = "LLMConverter" ->
            Min(50 + Bonus(len > 1000, 10) + Bonus(len > 5000, 10)
                   + Bonus(h2, 10) + Bonus(h3, 5) + Bonus(table, 10)
                   \* vn_chars / max(len(content), 1) > 0.1
                   + Bonus(10 * CountIn(content, NonAscii) > Max(len, 1), 5), 100)
      [] class = "PandocConverter" ->
            Min(60 + Bonus(len > 500, 10) + Bonus(len > 2000, 10)
                   + Bonus(h2, 10) + Bonus(bar, 10), 100)
      [] class = "LlamaParseConverter" ->
            Min(70 + Bonus(len > 1000, 5) + Bonus(len > 5000, 5)
                   + Bonus(h2, 5) + Bonus(h3, 5) + Bonus(table, 5)
                   + Bonus(CountIn(content, Astral) = 0, 5), 100)

\* mutant of Qualifies: only output with a second-level heading is accepted
QualifiesWithHeading(content, min_content_length) ==
    /\ content # <<>>
    /\ StrLen(content) > min_content_length
    /\ HasSub(content, <<"#", "#">>)

\* mutant of Qualifies: output as long as the minimum is accepted
QualifiesAtLeast(content, min_content_length) ==
    content # <<>> /\ StrLen(content) >= min_content_length

\* content and len(content) > settings.min_content_length
Qualifies(content, min_content_length) ==
    content # <<>> /\ StrLen(content) > min_content_length

NoMessage == [present |-> FALSE, text |-> <<>>]
Message(t) == [present |-> TRUE, text |-> t]

\* ConversionResult, with the defaults of the dataclass
ConversionResult(status, tool_used, has_output, content, quality_score, error_message) ==
    [status |-> status, tool_used |-> tool_used, has_output |-> has_output,
     content |-> content, quality_score |-> quality_score,
     error_message |-> error_message]

NoResult == ConversionResult("none", <<>>, FALSE, <<>>, 0, NoMessage)

\* mutant of Failed: the result carries no error message
FailedSilently(tool, msg) == ConversionResult("failed", tool, FALSE, <<>>, 0, NoMessage)

Failed(tool, msg) == ConversionResult("failed", tool, FALSE, <<>>, 0, Message(msg))
Skipped(suffix) ==
    ConversionResult("skipped", <<"unknown">>, FALSE, <<>>, 0,
                     Message(<<"Unsupported extension: ", suffix>>))
Success(tool, content, quality_score) ==
    ConversionResult("success", tool, TRUE, content, quality_score, NoMessage)

\* mutant of NotFound: a missing source is reported as Skipped
NotFoundAsSkipped == Skipped("path")

NotFound == Failed(<<"unknown">>, <<"File not found: ", "path">>)

Return(result) ==
    /\ cvResult' = result
    /\ cvPc' = "done"

\* mutant of ExhaustedMessage: only the last error is reported
ExhaustedMessageBare(last_error) == last_error

\* f"All models failed. Last error: {last_error}"
ExhaustedMessage(last_error) == <<"All models failed. Last error: ">> \o last_error

\* GeminiConverter.convert up to the fallback loop
LLMStart(read_ok, e) ==
    /\ cvPc = "ready" /\ cvConv = "LLMConverter"
    /\ IF ~cvSrc.exists THEN Return(NotFound)
       ELSE IF ~supports(cvConv, cvSrc.suffix) THEN Return(Skipped(cvSrc.suffix))
       ELSE IF ~read_ok THEN Return(Failed(<<"unknown">>, <<"Read error: ">> \o e))
       ELSE cvPc' = "chain" /\ UNCHANGED cvResult
    /\ UNCHANGED <<cvConv, cvSrc, cvCfg, cvIdx, cvLastError, cvCalls, cvBackendUsed, cvOutFile>>
    /\ UNCHANGED cvProc
    /\ UNCHANGED notConvert

\* mutant of ModelAt: the chain is walked from its end
ModelAtReversed(models, i) == models[Len(models) + 1 - i]

\* for model in self.models: the model of pass i
ModelAt(models, i) == models[i]

\* one pass of the loop for a model whose provider is not configured: continue
SkipModel ==
    /\ cvPc = "chain" /\ cvIdx <= Len(cvCfg.models)
    /\ get_provider_for_model(ModelAt(cvCfg.models, cvIdx), cvCfg) = "none"
    /\ cvIdx' = cvIdx + 1
    /\ UNCHANGED <<cvConv, cvSrc, cvCfg, cvPc, cvLastError, cvCalls, cvBackendUsed,
                   cvOutFile, cvResult>>
    /\ UNCHANGED cvProc
    /\ UNCHANGED notConvert

\* the classes of the exceptions an attempt can raise: the provider's HTTP
\* errors and timeouts, and the errors of writing the output file
ErrorClasses == {"HTTPStatusError", "TimeoutException", "OSError"}

\* what generate raises, and what output_path.write_text raises
ProviderErrors == {"HTTPStatusError", "TimeoutException"}
WriteErrors == {"OSError"}

\* mutant of Caught: only I/O errors are caught
CaughtOSErrorOnly(cls) == cls = "OSError"

\* except Exception: every one of these classes derives from Exception
Caught(cls) == cls \in ErrorClasses

\* the exception leaves convert
Raise ==
    /\ cvPc' = "raised"
    /\ UNCHANGED cvResult

\* history of one pass of the loop: error is the class of the exception the
\* pass raised ("none" when it raised nothing) and message its str(e)
Call(model, raised, text, qualified, wrote, error, message) ==
    [model |-> model, raised |-> raised, text |-> text, qualified |-> qualified,
     wrote |-> wrote, error |-> error, message |-> message]

\* mutant of LastErrorAfter: the first error of the chain is kept
LastErrorKeepFirst(last_error, e) == IF last_error = <<>> THEN e ELSE last_error

\* last_error = str(e)
LastErrorAfter(last_error, e) == e

\* one pass of the loop for a model with a provider: generate raises an
\* exception of class cls with text e, or returns text; writing the output
\* file succeeds or raises an exception of class cls with text e
TryModel(raises, text, write_ok, e, cls) ==
    /\ cvPc = "chain" /\ cvIdx <= Len(cvCfg.models)
    /\ LET model == ModelAt(cvCfg.models, cvIdx)
           tool_name == <<"llm/">> \o model
           final_content == add_frontmatter(text, cvSrc.suffix, tool_name)
           qualifies == Qualifies(text, cvCfg.min_content_length)
           \* except Exception as e: last_error = str(e); continue
           Handle == IF Caught(cls)
                     THEN /\ cvLastError' = LastErrorAfter(cvLastError, e)
                          /\ cvIdx' = cvIdx + 1
                          /\ UNCHANGED <<cvPc, cvResult, cvOutFile>>
                     ELSE /\ Raise
                          /\ UNCHANGED <<cvLastError, cvIdx, cvOutFile>>
       IN
       /\ get_provider_for_model(model, cvCfg) # "none"
       /\ cvBackendUsed' = TRUE
       /\ IF raises
          THEN /\ cls \in ProviderErrors
               /\ cvCalls' = Append(cvCalls, Call(model, TRUE, <<>>, FALSE, FALSE, cls, e))
               /\ Handle
          ELSE IF qualifies /\ write_ok
          THEN /\ cvCalls' = Append(cvCalls, Call(model, FALSE, text, TRUE, TRUE, "none", <<>>))
               /\ cvOutFile' = File(WriteText(final_content, linesep))
               /\ Return(Success(tool_name, final_content,
                                 calculate_quality(cvConv, final_content)))
               /\ UNCHANGED <<cvLastError, cvIdx>>
          ELSE IF qualifies
          THEN \* output_path.write_text raises inside the try block
               /\ cls \in WriteErrors
               /\ cvCalls' = Append(cvCalls, Call(model, FALSE, text, TRUE, FALSE, cls, e))
               /\ Handle
          ELSE /\ cvCalls' = Append(cvCalls, Call(model, FALSE, text, FALSE, FALSE, "none", <<>>))
               /\ cvIdx' = cvIdx + 1
               /\ UNCHANGED <<cvPc, cvResult, cvOutFile, cvLastError>>
    /\ UNCHANGED <<cvConv, cvSrc, cvCfg>>
    /\ UNCHANGED cvProc
    /\ UNCHANGED notConvert

\* the loop is over: every model was skipped or failed
Exhausted ==
    /\ cvPc = "chain" /\ cvIdx > Len(cvCfg.models)
    /\ Return(Failed(<<"llm-fallback">>, ExhaustedMessage(cvLastError)))
    /\ UNCHANGED <<cvConv, cvSrc, cvCfg, cvIdx, cvLastError, cvCalls, cvBackendUsed, cvOutFile>>
    /\ UNCHANGED cvProc
    /\ UNCHANGED notConvert

PandocRuns == {"spawn_error", "timeout", "timeout_exited", "exit_nonzero",
               "exit_nonzero_silent", "exit_nonzero_undecodable", "ok", "ok_io_error"}

\* the subprocess: "none" (not started), "running", "killed" or "exited";
\* its return code class and the bytes it wrote to stderr
Process(state, returncode, stderr) ==
    [state |-> state, returncode |-> returncode, stderr |-> stderr]

NoProcess == Process("none", "none", <<>>)

\* bytes of stderr that are not UTF-8
Undecodable == <<"0xff">>

\* mutant of error_msg: the captured stderr as it is
error_msg_raw(stderr) == stderr

\* error_msg = stderr.decode() if stderr else "Pandoc conversion failed"
error_msg(stderr) == IF stderr # <<>> THEN stderr ELSE <<"Pandoc conversion failed">>

\* PandocConverter.convert
PandocConvert(run, text, e) ==
    /\ cvPc = "ready" /\ cvConv = "PandocConverter"
    /\ IF ~cvSrc.exists
       THEN Return(NotFound) /\ UNCHANGED <<cvBackendUsed, cvOutFile, cvProc>>
       ELSE IF ~supports(cvConv, cvSrc.suffix)
       THEN Return(Skipped(cvSrc.suffix)) /\ UNCHANGED <<cvBackendUsed, cvOutFile, cvProc>>
       ELSE IF ~cvCfg.pandoc_installed
       THEN /\ Return(Failed(<<"unknown">>, <<"Pandoc is not installed">>))
            /\ UNCHANGED <<cvBackendUsed, cvOutFile, cvProc>>
       ELSE /\ cvBackendUsed' = TRUE
            /\ CASE run = "spawn_error" ->
                      \* create_subprocess_exec raises
                      /\ Return(Failed(<<"pandoc">>, e))
                      /\ UNCHANGED <<cvOutFile, cvProc>>
                 [] run = "timeout" ->
                      \* wait_for times out: process.kill(), then the
                      \* TimeoutError raised anew is caught
                      /\ Return(Failed(<<"pandoc">>, <<"Pandoc conversion timed out">>))
                      /\ cvProc' = Process("killed", "none", <<>>)
                      /\ UNCHANGED cvOutFile
                 [] run = "timeout_exited" ->
                      \* the process ended while the timeout was delivered:
                      \* process.kill() raises ProcessLookupError, str(e) = ""
                      /\ Return(Failed(<<"pandoc">>, <<>>))
                      /\ cvProc' = Process("exited", "none", <<>>)
                      /\ UNCHANGED cvOutFile
                 [] run = "exit_nonzero" ->
                      /\ Return(Failed(<<"pandoc">>, error_msg(<<"stderr">>)))
                      /\ cvProc' = Process("exited", "nonzero", <<"stderr">>)
                      /\ UNCHANGED cvOutFile
                 [] run = "exit_nonzero_silent" ->
                      /\ Return(Failed(<<"pandoc">>, error_msg(<<>>)))
                      /\ cvProc' = Process("exited", "nonzero", <<>>)
                      /\ UNCHANGED cvOutFile
                 [] run = "exit_nonzero_undecodable" ->
                      \* stderr.decode() raises UnicodeDecodeError, caught
                      \* by "except Exception as e"
                      /\ Return(Failed(<<"pandoc">>, e))
                      /\ cvProc' = Process("exited", "nonzero", Undecodable)
                      /\ UNCHANGED cvOutFile
                 [] run = "ok_io_error" ->
                      \* reading or rewriting the file pandoc wrote raises
                      /\ Return(Failed(<<"pandoc">>, e))
                      /\ cvProc' = Process("exited", "zero", <<>>)
                      /\ cvOutFile' = File(text)
                 [] run = "ok" ->
                      LET final_content ==
                              add_frontmatter(ReadText(text), cvSrc.suffix, <<"pandoc">>)
                      IN  /\ cvOutFile' = File(WriteText(final_content, linesep))
                          /\ cvProc' = Process("exited", "zero", <<>>)
                          /\ Return(Success(<<"pandoc">>, final_content,
                                            calculate_quality(cvConv, final_content)))
    /\ UNCHANGED <<cvConv, cvSrc, cvCfg, cvIdx, cvLastError, cvCalls>>
    /\ UNCHANGED notConvert

LlamaRuns == {"raises", "upload_rejected", "no_result", "ok", "ok_write_error"}

\* LlamaParseConverter.convert
LlamaParseConvert(run, text, e) ==
    /\ cvPc = "ready" /\ cvConv = "LlamaParseConverter"
    /\ IF ~cvSrc.exists
       THEN Return(NotFound) /\ UNCHANGED <<cvBackendUsed, cvOutFile>>
       ELSE IF ~cvCfg.llama_cloud_api_key
       THEN /\ Return(Failed(<<"unknown">>, <<"LlamaParse API key not configured">>))
            /\ UNCHANGED <<cvBackendUsed, cvOutFile>>
       ELSE IF ~supports(cvConv, cvSrc.suffix)
       THEN Return(Skipped(cvSrc.suffix)) /\ UNCHANGED <<cvBackendUsed, cvOutFile>>
       ELSE /\ cvBackendUsed' = TRUE
            /\ CASE run = "raises" ->
                      Return(Failed(<<"llamaparse">>, e)) /\ UNCHANGED cvOutFile
                 [] run = "upload_rejected" ->
                      /\ Return(Failed(<<"llamaparse">>, <<"Failed to upload file">>))
                      /\ UNCHANGED cvOutFile
                 [] run = "no_result" \/ (run \in {"ok", "ok_write_error"} /\ text = <<>>) ->
                      /\ Return(Failed(<<"llamaparse">>, <<"Processing failed or timed out">>))
                      /\ UNCHANGED cvOutFile
                 [] run = "ok_write_error" /\ text # <<>> ->
                      Return(Failed(<<"llamaparse">>, e)) /\ UNCHANGED cvOutFile
                 [] run = "ok" /\ text # <<>> ->
                      LET final_content ==
                              add_frontmatter(text, cvSrc.suffix, <<"llamaparse">>)
                      IN  /\ cvOutFile' = File(WriteText(final_content, linesep))
                          /\ Return(Success(<<"llamaparse">>, final_content,
                                            calculate_quality(cvConv, final_content)))
    /\ UNCHANGED <<cvConv, cvSrc, cvCfg, cvIdx, cvLastError, cvCalls>>
    /\ UNCHANGED cvProc
    /\ UNCHANGED notConvert

\* the settings a converter is built from; gemini_credential says whether
\* gemini_api_key or antigravity_access_token is set
Config(models, dk, gk, gc, min, lk, pi) ==
    [models |-> models, deepseek_api_key |-> dk, groq_api_key |-> gk,
     gemini_credential |-> gc,
     min_content_length |-> min, llama_cloud_api_key |-> lk, pandoc_installed |-> pi]

Sources == [exists : BOOLEAN, suffix : Suffixes]

\* LlamaParseConverter.is_available and PandocConverter.is_pandoc_available;
\* GeminiConverter has no such test and always holds a Gemini provider
is_available(class, cfg) ==
    CASE class = "LlamaParseConverter" -> cfg.llama_cloud_api_key
      [] class = "PandocConverter" -> cfg.pandoc_installed
      [] class = "LLMConverter" -> TRUE

ConvertFresh ==
    /\ cvPc = "ready"
    /\ cvIdx = 1
    /\ cvLastError = <<>>
    /\ cvCalls = <<>>
    /\ cvBackendUsed = FALSE
    /\ cvProc = NoProcess
    /\ cvOutFile = NoFile
    /\ cvResult = NoResult

\* a converter is constructed from the settings and convert is about to be called
ConvertInit ==
    /\ cvSrc \in Sources
    /\ \/ /\ cvConv = "LLMConverter"
          /\ \E ch \in Chains, dk \in BOOLEAN, gk \in BOOLEAN, gc \in BOOLEAN,
                min \in MinLens :
                cvCfg = Config(ch, dk, gk, gc, min, FALSE, FALSE)
       \/ /\ cvConv = "PandocConverter"
          /\ \E pi \in BOOLEAN : cvCfg = Config(<<>>, FALSE, FALSE, FALSE, 1, FALSE, pi)
       \/ /\ cvConv = "LlamaParseConverter"
          /\ \E lk \in BOOLEAN : cvCfg = Config(<<>>, FALSE, FALSE, FALSE, 1, lk, FALSE)
    /\ ConvertFresh

\* no conversion under way
ConvertIdle ==
    /\ cvSrc = [exists |-> TRUE, suffix |-> ".pdf"]
    /\ cvConv = "LLMConverter"
    /\ cvCfg = Config(<<>>, FALSE, FALSE, FALSE, 1, FALSE, FALSE)
    /\ ConvertFresh

ConvertNext ==
    \/ \E ok \in BOOLEAN, e \in Errors : LLMStart(ok, e)
    \/ SkipModel
    \/ \E r \in BOOLEAN, t \in GeneratedTexts, w \in BOOLEAN, e \in Errors, cls \in ErrorClasses :
          TryModel(r, t, w, e, cls)
    \/ Exhausted
    \/ \E run \in PandocRuns, t \in GeneratedTexts, e \in Errors : PandocConvert(run, t, e)
    \/ \E run \in LlamaRuns, t \in GeneratedTexts, e \in Errors : LlamaParseConvert(run, t, e)

-----------------------------------------------------------------------------
(* The fallback loop of GeminiConverter.convert, run twice side by side on  *)
(* the same file with the same settings: in every pass both conversions    *)
(* meet the same provider behaviour and texts of the same length           *)

TwinRuns == {1, 2}

\* what generate returns: texts of four lengths, plain or with headings, a
\* table, accented letters or a leading "---"
TwinTexts ==
    {<<>>, <<"x">>, <<"#">>,
     <<"x", "x", "x", "x">>, <<"#", "#", "#", "x">>, <<"-", "-", "-", "x">>,
     <<"e-acute", "e-acute", "x", "x">>, <<"|", "-", "|", "-">>,
     <<Blob, Blob, Blob, Blob, Blob, Blob, "x", "x", "x", "x", "x", "x", "x">>,
     <<AccentBlob, Blob, Blob, Blob, Blob, Blob, "#", "#", "#", "|", "-", "|", "-">>}

\* a conversion inside the loop, or after its return
Run(pc, idx, status, tool, score) ==
    [pc |-> pc, idx |-> idx, status |-> status, tool |-> tool, score |-> score]

FreshRun == Run("chain", 1, "none", <<>>, 0)

\* one pass of "for model in self.models": skip a model without provider,
\* return Success for a qualifying output that was written, else go on
LoopPass(run, cfg, raises, text, write_ok) ==
    LET model == ModelAt(cfg.models, run.idx)
        tool_name == <<"llm/">> \o model
        final_content == add_frontmatter(text, ".pdf", tool_name)
    IN
    IF get_provider_for_model(model, cfg) = "none"
    THEN [run EXCEPT !.idx = @ + 1]
    ELSE IF ~raises /\ Qualifies(text, cfg.min_content_length) /\ write_ok
    THEN Run("done", run.idx, "success", tool_name,
             calculate_quality("LLMConverter", final_content))
    ELSE [run EXCEPT !.idx = @ + 1]

\* the return after the loop
LoopEnd(run) == Run("done", run.idx, "failed", <<"llm-fallback">>, 0)

InLoop(run) == run.pc = "chain" /\ run.idx <= Len(twCfg.models)
PastLoop(run) == run.pc = "chain" /\ run.idx > Len(twCfg.models)

\* both conversions make a pass: generate raises in both or returns t1 in the
\* first and t2 in the second, and the write works in both or fails in both
TwinPass(raises, t1, t2, write_ok) ==
    /\ StrLen(t1) = StrLen(t2)
    /\ \E r \in TwinRuns : InLoop(twRun[r])
    /\ twRun' = [r \in TwinRuns |->
                    IF InLoop(twRun[r])
                    THEN LoopPass(twRun[r], twCfg, raises,
                                  IF r = 1 THEN t1 ELSE t2, write_ok)
                    ELSE twRun[r]]
    /\ UNCHANGED twCfg
    /\ UNCHANGED notTwin

\* the conversions that are through the chain return Failed
TwinEnd ==
    /\ \E r \in TwinRuns : PastLoop(twRun[r])
    /\ twRun' = [r \in TwinRuns |->
                    IF PastLoop(twRun[r]) THEN LoopEnd(twRun[r]) ELSE twRun[r]]
    /\ UNCHANGED twCfg
    /\ UNCHANGED notTwin

\* two conversions of an existing .pdf file are about to enter the loop
TwinInit ==
    /\ \E ch \in Chains, dk \in BOOLEAN, gk \in BOOLEAN, min \in MinLens :
          twCfg = Config(ch, dk, gk, FALSE, min, FALSE, FALSE)
    /\ twRun = [r \in TwinRuns |-> FreshRun]

TwinIdle ==
    /\ twCfg = Config(<<>>, FALSE, FALSE, FALSE, 1, FALSE, FALSE)
    /\ twRun = [r \in TwinRuns |-> FreshRun]

TwinNext ==
    \/ \E raises \in BOOLEAN, t1 \in TwinTexts, t2 \in TwinTexts, write_ok \in BOOLEAN :
          TwinPass(raises, t1, t2, write_ok)
    \/ TwinEnd

-----------------------------------------------------------------------------
(* The providers: GeminiProvider.generate under tenacity's retry, and      *)
(* OpenAIProvider.generate                                                 *)

Providers == {"GeminiProvider", "OpenAIProvider"}

\* what can happen in one attempt of generate:
\*   undecodable_input  the file is text by its MIME type and is not UTF-8
\*   invalid_url        the request cannot be built (httpx.InvalidURL)
\*   transport_error    no response: connection refused or reset, timeout
\*   http_4xx, http_5xx a response with an error status
\*   bad_json           a 2xx response whose body is not JSON
\*   no_candidates      2xx JSON without candidates / choices
\*   bad_shape          2xx JSON whose first candidate / choice is not an object
\*   null_text          2xx JSON whose text field is null
\*   ok                 2xx JSON with a text
Outcomes ==
    {"undecodable_input", "invalid_url", "transport_error", "http_4xx", "http_5xx",
     "bad_json", "no_candidates", "bad_shape", "null_text", "ok"}

\* the failures of an attempt that another attempt can cure
Transient == {"transport_error", "http_5xx"}

\* the failures that are the client's own: the request it built is wrong, or
\* it fails before or after the HTTP exchange
ClientSide == {"undecodable_input", "invalid_url", "http_4xx", "bad_shape"}

\* the texts a provider sends back
ProviderTexts == {<<"x">>, <<"x", "x", "x", "x">>}

\* "Error: Cannot decode text file content."
DecodeErrorText == <<"Error: ", "Cannot ", "decode ", "text file ", "content.">>

\* str(None)
NoneText == <<"N", "o", "n", "e">>

Returns(text) == [raises |-> FALSE, text |-> text, error |-> "none"]
Raises(error) == [raises |-> TRUE, text |-> <<>>, error |-> error]

\* the body of GeminiProvider.generate, once: the file is base64-encoded
\* whatever its bytes are, so undecodable_input does not occur
gemini_generate(outcome, text) ==
    CASE outcome = "invalid_url" -> Raises("InvalidURL")
      [] outcome = "transport_error" -> Raises("TransportError")
      [] outcome \in {"http_4xx", "http_5xx"} -> Raises("HTTPStatusError")
      [] outcome = "bad_json" -> Raises("JSONDecodeError")
      \* _extract_content: no candidates or no parts gives ""
      [] outcome = "no_candidates" -> Returns(<<>>)
      \* candidates[0].get fails with AttributeError, which is not caught
      [] outcome = "bad_shape" -> Raises("AttributeError")
      [] outcome = "null_text" -> Returns(NoneText)
      [] outcome = "ok" -> Returns(text)

\* OpenAIProvider.generate
openai_generate(outcome, text) ==
    CASE outcome = "undecodable_input" -> Returns(DecodeErrorText)
      [] outcome = "invalid_url" -> Raises("InvalidURL")
      [] outcome = "transport_error" -> Raises("TransportError")
      [] outcome \in {"http_4xx", "http_5xx"} -> Raises("HTTPStatusError")
      [] outcome = "bad_json" -> Raises("JSONDecodeError")
      \* data["choices"][0]["message"]["content"]
      [] outcome = "no_candidates" -> Raises("KeyError")
      [] outcome = "bad_shape" -> Raises("TypeError")
      [] outcome = "null_text" -> Returns(NoneText)
      [] outcome = "ok" -> Returns(text)

\* stop_after_attempt(3)
MaxAttempts == 3

\* mutant of stop_after_attempt: one attempt more
stop_one_later(attempt_number) == attempt_number > MaxAttempts

stop_after_attempt(attempt_number) == attempt_number >= MaxAttempts

\* @retry without a retry argument: retry_if_exception_type(Exception)
should_retry(error) == TRUE

\* one attempt of GeminiProvider.generate under @retry: a return ends the
\* call; an exception is retried until stop_after_attempt says stop, and then
\* RetryError is raised
GeminiAttempt(outcome, text) ==
    /\ pvProvider = "GeminiProvider" /\ pvPc = "ready"
    /\ outcome # "undecodable_input"
    /\ LET r == gemini_generate(outcome, text)
           attempt_number == Len(pvAttempts) + 1
       IN  /\ pvAttempts' = Append(pvAttempts, outcome)
           /\ IF ~r.raises
              THEN pvPc' = "returned" /\ pvReturn' = r.text /\ UNCHANGED pvError
              ELSE IF ~should_retry(r.error)
              THEN pvPc' = "raised" /\ pvError' = r.error /\ UNCHANGED pvReturn
              ELSE IF stop_after_attempt(attempt_number)
              THEN pvPc' = "raised" /\ pvError' = "RetryError" /\ UNCHANGED pvReturn
              ELSE UNCHANGED <<pvPc, pvReturn, pvError>>
    /\ UNCHANGED pvProvider
    /\ UNCHANGED notProvider

\* OpenAIProvider.generate: one attempt
OpenAIGenerate(outcome, text) ==
    /\ pvProvider = "OpenAIProvider" /\ pvPc = "ready"
    /\ LET r == openai_generate(outcome, text)
       IN  /\ pvAttempts' = Append(pvAttempts, outcome)
           /\ IF r.raises
              THEN pvPc' = "raised" /\ pvError' = r.error /\ UNCHANGED pvReturn
              ELSE pvPc' = "returned" /\ pvReturn' = r.text /\ UNCHANGED pvError
    /\ UNCHANGED pvProvider
    /\ UNCHANGED notProvider

ProviderFresh ==
    /\ pvPc = "ready"
    /\ pvAttempts = <<>>
    /\ pvReturn = <<>>
    /\ pvError = "none"

\* generate of a provider is about to be called
ProviderInit ==
    /\ pvProvider \in Providers
    /\ ProviderFresh

ProviderIdle ==
    /\ pvProvider = "GeminiProvider"
    /\ ProviderFresh

ProviderNext ==
    \/ \E o \in Outcomes, t \in ProviderTexts : GeminiAttempt(o, t)
    \/ \E o \in Outcomes, t \in ProviderTexts : OpenAIGenerate(o, t)

-----------------------------------------------------------------------------
(* The batch of the convert command: process_files and convert_file_safe   *)

\* sem = asyncio.Semaphore(10)
SemCap == 10

\* the largest batch looked at
MaxFiles == 12

\* mutant of SemFree: the semaphore never blocks
SemAlwaysFree(value) == TRUE

\* asyncio.Semaphore.acquire returns at once only while the value is positive
SemFree(value) == value > 0

\* the two branches of convert_file_safe
ConverterPaths == {"pandoc", "llm"}

\* what convert_file_safe returns on a path: asyncio.to_thread calls the
\* coroutine function PandocConverter.convert in a thread and hands back the
\* coroutine object it returns, never awaited; the LLM path awaits
\* GeminiConverter.convert and hands back its ConversionResult
ReturnedBy(path) == IF path = "pandoc" THEN "coroutine" ELSE "ConversionResult"

\* convert_file_safe enters "async with sem" and starts its conversion
Acquire ==
    /\ batchPc = "collecting"
    /\ nWaiting > 0
    /\ SemFree(semValue)
    /\ semValue' = semValue - 1
    /\ nWaiting' = nWaiting - 1
    /\ nActive' = nActive + 1
    /\ UNCHANGED <<batchSize, nFinished, nCollected, coroutineAt, batchPc>>
    /\ UNCHANGED notBatch

\* convert_file_safe returns on the given path and leaves "async with sem"
Release(path) ==
    /\ batchPc = "collecting"
    /\ nActive > 0
    /\ semValue' = semValue + 1
    /\ nActive' = nActive - 1
    /\ nFinished' = nFinished + 1
    /\ coroutineAt' = IF coroutineAt = 0 /\ ReturnedBy(path) = "coroutine"
                      THEN nFinished + 1
                      ELSE coroutineAt
    /\ UNCHANGED <<batchSize, nWaiting, nCollected, batchPc>>
    /\ UNCHANGED notBatch

\* one pass of "for future in asyncio.as_completed(tasks)": the next completed
\* task is awaited, its result appended and result.is_success read, which
\* raises AttributeError on a coroutine object; the error leaves process_files
\* and asyncio.run, which cancels the tasks still pending
Collect ==
    /\ batchPc = "collecting"
    /\ nCollected < nFinished
    /\ nCollected' = nCollected + 1
    /\ batchPc' = IF coroutineAt = nCollected + 1 THEN "crashed" ELSE "collecting"
    /\ UNCHANGED <<batchSize, semValue, nWaiting, nActive, nFinished, coroutineAt>>
    /\ UNCHANGED notBatch

\* the loop is over: return results
ReturnResults ==
    /\ batchPc = "collecting"
    /\ nCollected = batchSize
    /\ batchPc' = "returned"
    /\ UNCHANGED <<batchSize, semValue, nWaiting, nActive, nFinished, nCollected,
                   coroutineAt>>
    /\ UNCHANGED notBatch

\* process_files has created one convert_file_safe task per file
BatchInit ==
    /\ batchSize \in 1..MaxFiles
    /\ semValue = SemCap
    /\ nWaiting = batchSize
    /\ nActive = 0
    /\ nFinished = 0
    /\ nCollected = 0
    /\ coroutineAt = 0
    /\ batchPc = "collecting"

\* no batch under way
BatchIdle ==
    /\ batchSize = 0
    /\ semValue = SemCap
    /\ nWaiting = 0
    /\ nActive = 0
    /\ nFinished = 0
    /\ nCollected = 0
    /\ coroutineAt = 0
    /\ batchPc = "returned"

BatchNext ==
    \/ Acquire
    \/ \E path \in ConverterPaths : Release(path)
    \/ Collect
    \/ ReturnResults

-----------------------------------------------------------------------------
(* The convert command on one file: convert_file_safe, called once per run *)
(* of the command                                                          *)

\* the values of --tool
FsTools == {"auto", "pandoc", "gemini", "llm", "llamaparse"}

\* the suffixes get_files_to_convert lets through (compared in lower case)
BatchSuffixes ==
    {".pdf", ".PDF", ".docx", ".doc", ".html", ".htm", ".pptx", ".xlsx"}

\* the runs of the command looked at
MaxConversions == 3

\* the converter convert_file_safe constructs; GeminiConverter is the class
\* registered as LLMConverter
ConverterFor(tool, suffix) ==
    IF tool = "pandoc" \/ (tool = "auto" /\ Lower(suffix) \in {".docx", ".html", ".htm"})
    THEN "PandocConverter"
    ELSE "LLMConverter"

\* one convert_file_safe call: the converter, whether its convert ran and
\* called its backend, what came back, and whether the file's bytes had
\* changed since the call before
Conversion(converter, ran, status, changed) ==
    [converter |-> converter, ran |-> ran, status |-> status, changed |-> changed]

\* convert_file_safe(file): on the Pandoc path asyncio.to_thread calls the
\* coroutine function, whose body never runs, and a coroutine object comes
\* back; on the other path GeminiConverter.convert returns Skipped for a
\* suffix it does not support and else calls its providers and ends with the
\* status given. ConversionCache is not used on either path.
ConvertFileSafe(status) ==
    /\ Len(fsLog) < MaxConversions
    /\ LET converter == ConverterFor(fsTool, fsSuffix) IN
       fsLog' = Append(fsLog,
                       IF converter = "PandocConverter"
                       THEN Conversion(converter, FALSE, "coroutine", fsDirty)
                       ELSE IF ~supports(converter, fsSuffix)
                       THEN Conversion(converter, FALSE, "skipped", fsDirty)
                       ELSE Conversion(converter, TRUE, status, fsDirty))
    /\ fsDirty' = FALSE
    /\ UNCHANGED <<fsTool, fsSuffix>>
    /\ UNCHANGED notFile

\* the file is edited between two runs of the command
ChangeFile ==
    /\ fsLog # <<>>
    /\ ~fsDirty
    /\ fsDirty' = TRUE
    /\ UNCHANGED <<fsTool, fsSuffix, fsLog>>
    /\ UNCHANGED notFile

FileInit ==
    /\ fsTool \in FsTools
    /\ fsSuffix \in BatchSuffixes
    /\ fsDirty = FALSE
    /\ fsLog = <<>>

FileIdle ==
    /\ fsTool = "auto"
    /\ fsSuffix = ".pdf"
    /\ fsDirty = FALSE
    /\ fsLog = <<>>

FileNext ==
    \/ \E status \in {"success", "failed"} : ConvertFileSafe(status)
    \/ ChangeFile

-----------------------------------------------------------------------------
(* The routing of models to providers in one GeminiConverter               *)

\* model names to route: one per word the routing looks for, one with two
\* of the words, one with none
RouteNames ==
    {<<"gemini", "-2.0-flash-exp">>, <<"deepseek", "-chat">>,
     <<"llama", "-3.3-70b-versatile">>, <<"mixtral", "-8x7b-32768">>,
     <<"gemma", "2-9b-it">>, <<"deepseek", "-r1-distill-", "llama", "-70b">>,
     <<"gpt-4o">>}

\* the _get_provider_for_model calls looked at
MaxRoutes == 2

\* one call of _get_provider_for_model, as the fallback loop makes it
Route(model) ==
    /\ Len(rtLog) < MaxRoutes
    /\ rtLog' = Append(rtLog, [model |-> model,
                               provider |-> get_provider_for_model(model, rtCfg)])
    /\ UNCHANGED rtCfg
    /\ UNCHANGED notRoute

\* GeminiConverter.__init__: the providers for which there is a key
RouteInit ==
    /\ \E dk \in BOOLEAN, gk \in BOOLEAN :
          rtCfg = Config(<<>>, dk, gk, FALSE, 1, FALSE, FALSE)
    /\ rtLog = <<>>

RouteIdle ==
    /\ rtCfg = Config(<<>>, FALSE, FALSE, FALSE, 1, FALSE, FALSE)
    /\ rtLog = <<>>

RouteNext == \E model \in RouteNames : Route(model)

-----------------------------------------------------------------------------
(* The watcher: ConversionEventHandler                                     *)

\* the paths events arrive for
WatchPaths == {"a.pdf", "b.docx", "notes.txt"}

\* path.suffix.lower() in SUPPORTED_EXTENSIONS
WatchSupported(path) == path \in {"a.pdf", "b.docx"}

\* DEBOUNCE_SECONDS = 1.0, in ticks
DEBOUNCE_SECONDS == 2

\* the clock when the handler is built, and the ticks and events looked at
StartTime == 4
MaxTicks == 4
MaxEvents == 3

Event(path, is_directory, at) ==
    [path |-> path, is_directory |-> is_directory, at |-> at]

FileChange(path, at) == [path |-> path, at |-> at]

\* mutant of should_process: an event at the end of the window is still
\* held back
should_process_late(path, now, last_triggered) ==
    /\ WatchSupported(path)
    /\ ~(now - last_triggered[path] <= DEBOUNCE_SECONDS)

\* ConversionEventHandler._should_process, its return value
should_process(path, now, last_triggered) ==
    /\ WatchSupported(path)
    /\ ~(now - last_triggered[path] < DEBOUNCE_SECONDS)

\* on_modified and on_created have the same body
HandleEvent(path, is_directory) ==
    /\ Len(wtEvents) < MaxEvents
    /\ wtEvents' = Append(wtEvents, Event(path, is_directory, wtNow))
    /\ IF ~is_directory /\ should_process(path, wtNow, wtLast)
       THEN /\ wtLast' = [wtLast EXCEPT ![path] = wtNow]
            /\ wtCalls' = Append(wtCalls, FileChange(path, wtNow))
       ELSE UNCHANGED <<wtLast, wtCalls>>
    /\ UNCHANGED wtNow
    /\ UNCHANGED notWatch

OnModified(path, is_directory) == HandleEvent(path, is_directory)

OnCreated(path, is_directory) == HandleEvent(path, is_directory)

\* time passes
Tick ==
    /\ wtNow < StartTime + MaxTicks
    /\ wtNow' = wtNow + 1
    /\ UNCHANGED <<wtLast, wtCalls, wtEvents>>
    /\ UNCHANGED notWatch

\* ConversionEventHandler.__init__
WatchInit ==
    /\ wtNow = StartTime
    /\ wtLast = [p \in WatchPaths |-> 0]
    /\ wtCalls = <<>>
    /\ wtEvents = <<>>

WatchIdle == WatchInit

WatchNext ==
    \/ \E p \in WatchPaths, d \in BOOLEAN : OnModified(p, d)
    \/ \E p \in WatchPaths, d \in BOOLEAN : OnCreated(p, d)
    \/ Tick

-----------------------------------------------------------------------------
(* Specifications                                                          *)

-----------------------------------------------------------------------------
(* The output files of a batch: BaseConverter.get_output_path              *)

\* the characters of a file name's stem
StemChars == {"R", "r", " ", "_"}

\* the length of the stems looked at
StemLen == 1

Stems == [1..StemLen -> StemChars]

\* two of the extensions get_files_to_convert collects
OutSuffixes == {".pdf", ".docx"}

\* the directory given to the command and one below it (--recursive)
SourceDirs == {"in", "in/sub"}

SourceFile(dir, stem, suffix) == [dir |-> dir, stem |-> stem, suffix |-> suffix]

SourceFiles == {SourceFile(d, st, su) : d \in SourceDirs, st \in Stems, su \in OutSuffixes}

\* the values of --output
OutputDirs == {"none", "out"}

\* str.lower on one character
lower(ch) == IF ch = "R" THEN "r" ELSE ch

OutputPath(dir, name) == [dir |-> dir, name |-> name]

\* source_path.stem.lower().replace(" ", "_") + ".md", in self.output_dir or
\* else next to the source
get_output_path(source_path, output_dir) ==
    LET output_name ==
            [i \in 1..Len(source_path.stem) |->
                IF lower(source_path.stem[i]) = " " THEN "_"
                ELSE lower(source_path.stem[i])] \o <<".md">>
        parent_dir == IF output_dir # "none" THEN output_dir ELSE source_path.dir
    IN  OutputPath(parent_dir, output_name)

MarkdownFile(path, source) == [path |-> path, source |-> source]

\* output_path.write_text(...): the file is created or overwritten
WriteOutput(files, path, source) ==
    {f \in files : f.path # path} \cup {MarkdownFile(path, source)}

\* one convert_file_safe task runs to its end; the tasks of a batch run
\* concurrently and finish in any order
ConvertOne(file, ok) ==
    /\ file \in outBatch \ (outWritten \cup outFailed)
    /\ IF ok
       THEN /\ outFiles' = WriteOutput(outFiles, get_output_path(file, outDir), file)
            /\ outWritten' = outWritten \cup {file}
            /\ UNCHANGED outFailed
       ELSE /\ outFailed' = outFailed \cup {file}
            /\ UNCHANGED <<outFiles, outWritten>>
    /\ UNCHANGED <<outDir, outBatch>>
    /\ UNCHANGED notOut

\* a batch of two distinct source files
OutInit ==
    /\ outDir \in OutputDirs
    /\ outBatch \in {{a, b} : a \in SourceFiles, b \in SourceFiles} \
                        {{a} : a \in SourceFiles}
    /\ outWritten = {}
    /\ outFailed = {}
    /\ outFiles = {}

\* no batch
OutIdle ==
    /\ outDir = "none"
    /\ outBatch = {}
    /\ outWritten = {}
    /\ outFailed = {}
    /\ outFiles = {}

OutNext == \E file \in SourceFiles, ok \in BOOLEAN : ConvertOne(file, ok)

\* the routing, the watcher and the output directory are idle
LastIdle == RouteIdle /\ WatchIdle /\ OutIdle

\* the components added last are idle
RestIdle == TwinIdle /\ ProviderIdle /\ FileIdle /\ LastIdle

CacheSpecInit ==
    CacheInit /\ RegistryInit /\ ConvertIdle /\ BatchIdle /\ StepsIdle /\ RestIdle

CacheSpec == CacheSpecInit /\ [][CacheNext]_vars

CacheStepSpecInit ==
    StepsInit /\ CacheIdle /\ RegistryInit /\ ConvertIdle /\ BatchIdle /\ RestIdle

CacheStepSpec == CacheStepSpecInit /\ [][StepsNext]_vars

CacheRestartSpec == CacheSpecInit /\ [][RestartNext]_vars

RegistrySpecInit ==
    RegistryInit /\ CacheIdle /\ ConvertIdle /\ BatchIdle /\ StepsIdle /\ RestIdle

RegistrySpec == RegistrySpecInit /\ [][RegistryNext]_vars

ConvertSpecInit ==
    ConvertInit /\ CacheIdle /\ RegistryInit /\ BatchIdle /\ StepsIdle /\ RestIdle

ConvertSpec == ConvertSpecInit /\ [][ConvertNext]_vars

BatchSpecInit ==
    BatchInit /\ CacheIdle /\ RegistryInit /\ ConvertIdle /\ StepsIdle /\ RestIdle

BatchSpec == BatchSpecInit /\ [][BatchNext]_vars

\* every component but the three added last is idle
FirstIdle == CacheIdle /\ RegistryInit /\ ConvertIdle /\ BatchIdle /\ StepsIdle

TwinSpecInit == TwinInit /\ FirstIdle /\ ProviderIdle /\ FileIdle /\ LastIdle

TwinSpec == TwinSpecInit /\ [][TwinNext]_vars

ProviderSpecInit == ProviderInit /\ FirstIdle /\ TwinIdle /\ FileIdle /\ LastIdle

ProviderSpec == ProviderSpecInit /\ [][ProviderNext]_vars

FileSpecInit == FileInit /\ FirstIdle /\ TwinIdle /\ ProviderIdle /\ LastIdle

FileSpec == FileSpecInit /\ [][FileNext]_vars

RouteSpecInit == RouteInit /\ FirstIdle /\ TwinIdle /\ ProviderIdle /\ FileIdle /\ WatchIdle /\ OutIdle

RouteSpec == RouteSpecInit /\ [][RouteNext]_vars

WatchSpecInit == WatchInit /\ FirstIdle /\ TwinIdle /\ ProviderIdle /\ FileIdle /\ RouteIdle /\ OutIdle

WatchSpec == WatchSpecInit /\ [][WatchNext]_vars

\* the observer thread hands over every event it has, and time passes
WatchFairSpec == WatchSpec /\ WF_vars(WatchNext)

OutSpecInit ==
    OutInit /\ FirstIdle /\ TwinIdle /\ ProviderIdle /\ FileIdle /\ RouteIdle /\ WatchIdle

OutSpec == OutSpecInit /\ [][OutNext]_vars

-----------------------------------------------------------------------------
(* Claims about ConversionCache                                            *)

\* C1 (as claimed): right after a completed set(F, C) on a readable source
\* file F, get(F) returns exactly C.
C1_RoundTripExact ==
    (cacheLast.op = "set" /\ expected[Resolve(cacheLast.path)].hit)
        => cache_get(cacheLast.path) = expected[Resolve(cacheLast.path)]

\* What the code does instead: get returns C as read back in text mode, with
\* every "\r\n" and "\r" turned into "\n".
RoundTripUpToNewlines ==
    (cacheLast.op = "set" /\ expected[Resolve(cacheLast.path)].hit)
        => cache_get(cacheLast.path) =
               Hit(ReadText(WriteText(expected[Resolve(cacheLast.path)].text, linesep)))

\* a hit is backed by an index entry whose hash is the hash of the current bytes
HitImpliesFreshEntry ==
    \A p \in Paths :
        cache_get(p).hit =>
            /\ Resolve(p) \in DOMAIN index
            /\ srcBytes[Resolve(p)] # NoBytes
            /\ index[Resolve(p)].hash = HashOfBytes(srcBytes[Resolve(p)])

\* a step that changes the bytes of a file whose latest set is still current
\* leaves get a miss for every path of that file
ByteChangeMisses ==
    \A p \in Paths :
        (expected[Resolve(p)].hit /\ srcBytes'[Resolve(p)] # srcBytes[Resolve(p)])
            => ~cache_get(p)'.hit

\* C2: get(F) hits only if the index holds an entry for F's resolved path
\* whose stored hash equals the hash of F's current bytes; and after set(F, C1)
\* a change of F's bytes makes get(F) a miss without any invalidate.
C2_HitInvariant == [](HitImpliesFreshEntry) /\ [][ByteChangeMisses]_vars

\* C2 witness: the bytes of a cached file were just changed, its index entry
\* is still there with the old hash, and get misses.
C2_Witness ==
    /\ cacheLast.op = "mutate"
    /\ cacheLast.path \in DOMAIN index
    /\ srcBytes[cacheLast.path] # NoBytes
    /\ index[cacheLast.path].hash # HashOfBytes(srcBytes[cacheLast.path])
    /\ cacheFiles[get_cache_key(cacheLast.path)].exists
    /\ ~cache_get(cacheLast.path).hit

\* C3 (as claimed): two distinct files A and B with identical bytes, each with
\* a completed set still current, give get(A) = Ca and get(B) = Cb.
C3_NoCollisionExact ==
    \A A \in Keys, B \in Keys :
        (A # B /\ srcBytes[A] = srcBytes[B] /\ expected[A].hit /\ expected[B].hit)
            => (cache_get(A) = expected[A] /\ cache_get(B) = expected[B])

\* The part of C3 that is about keys: set and invalidate of one file never
\* change what get returns for a file with another resolved path.
NoInterference ==
    [][\A B \in Keys :
          (cacheLast'.op \in {"set", "invalidate"} /\ Resolve(cacheLast'.path) # B)
              => cache_get(B)' = cache_get(B)]_vars

\* for every path, get is a miss when the source cannot be hashed and when
\* the content file is missing or cannot be read
UnreadableIsMiss ==
    \A p \in Paths :
        (\/ ~Readable(p)
         \/ ~cacheFiles[get_cache_key(p)].exists
         \/ cacheFiles[get_cache_key(p)].mode = "denied")
            => cache_get(p) = Miss

\* a call of get changes neither the index, in memory and on disk, nor a file
GetChangesNothing ==
    cacheLast'.op = "get"
        => /\ index' = index
           /\ diskIndex' = diskIndex
           /\ cacheFiles' = cacheFiles

\* C13: for a source file that is missing or unreadable, and for a backing
\* content file that is missing or unreadable, get returns a miss, does not
\* raise, and leaves the index unchanged.
C13_GetFailsToMiss == [](UnreadableIsMiss) /\ [][GetChangesNothing]_vars

\* C13 witness: get was called for a file whose index entry is current while
\* its content file cannot be read, and for which get is a miss.
C13_Witness ==
    /\ cacheLast.op = "get"
    /\ Readable(cacheLast.path)
    /\ Resolve(cacheLast.path) \in DOMAIN index
    /\ index[Resolve(cacheLast.path)].hash = get_file_hash(cacheLast.path)
    /\ cacheFiles[get_cache_key(cacheLast.path)] = DeniedFile
    /\ cache_get(cacheLast.path) = Miss

\* C14 (as claimed): a set that fails at hashing the source, at writing the
\* content file or at saving the index changes nothing: the index in memory
\* and on disk and the result of get for every path are as before the call.
C14_FailedSetIsNoOp ==
    [][(cacheLast'.op = "set" /\ cacheLast'.io # "none")
          => /\ index' = index
             /\ diskIndex' = diskIndex
             /\ \A p \in Paths : cache_get(p)' = cache_get(p)]_vars

\* What holds instead: a set that fails at hashing the source or at opening
\* the content file changes nothing.
EarlyFailedSetIsNoOp ==
    [][(cacheLast'.op = "set" /\ cacheLast'.io \in {"hash", "open"})
          => /\ index' = index
             /\ diskIndex' = diskIndex
             /\ cacheFiles' = cacheFiles]_vars

\* the content file and the index entry of every other resolved path are as before
OthersUntouched(key) ==
    \A k \in Keys \ {key} :
        /\ (k \in DOMAIN index') = (k \in DOMAIN index)
        /\ k \in DOMAIN index => index'[k] = index[k]
        /\ cacheFiles'[get_cache_key(k)] = cacheFiles[get_cache_key(k)]

\* invalidate returns whether the index held an entry; the entry is gone,
\* get misses, other paths are untouched, and without an entry nothing changes
InvalidateRemovesEntry ==
    \A p \in Paths :
        p = cacheLast'.path
           => LET key == Resolve(p) IN
              /\ cacheLast'.result = (key \in DOMAIN index)
              /\ key \notin DOMAIN index'
              /\ cache_get(p)' = Miss
              /\ OthersUntouched(key)
              /\ key \notin DOMAIN index
                    => /\ index' = index
                       /\ diskIndex' = diskIndex
                       /\ cacheFiles' = cacheFiles

\* C17 (as claimed): invalidate(F) returns true exactly when the index held an
\* entry for F's resolved path; after it the entry and its content file are
\* gone and get(F) misses; the entries of other paths are unchanged; on an
\* uncached path it returns false and changes nothing.
C17_InvalidateRemovesFile ==
    [][cacheLast'.op = "invalidate"
          => /\ InvalidateRemovesEntry
             /\ Resolve(cacheLast'.path) \in DOMAIN index
                   => ~cacheFiles'[index[Resolve(cacheLast'.path)].cache_key].exists]_vars

\* C17 (amended): the same, but the content file is gone only when removing
\* it did not fail: an OSError of unlink is swallowed and leaves the file as
\* it was, with the entry gone and get(F) a miss all the same.
C17_InvalidateRemovesEntry ==
    [][cacheLast'.op = "invalidate"
          => /\ InvalidateRemovesEntry
             /\ Resolve(cacheLast'.path) \in DOMAIN index
                   => LET ck == index[Resolve(cacheLast'.path)].cache_key IN
                      IF cacheLast'.io = "unlink"
                      THEN cacheFiles'[ck] = cacheFiles[ck]
                      ELSE ~cacheFiles'[ck].exists]_vars

\* C17 witness: invalidate has just removed the entry of a file for which get
\* was a hit before; its content file is gone.
C17_Witness ==
    /\ cacheLast.op = "invalidate"
    /\ cacheLast.result = TRUE
    /\ cacheLast.io = "none"
    /\ Readable(cacheLast.path)
    /\ Resolve(cacheLast.path) \notin DOMAIN index
    /\ ~cacheFiles[get_cache_key(cacheLast.path)].exists
    /\ \E k \in Keys \ {Resolve(cacheLast.path)} : cache_get(k).hit

\* clear returns the number of entries the index held, empties the index and
\* leaves get a miss for every path
ClearEmptiesIndex ==
    /\ cacheLast'.result = Cardinality(DOMAIN index)
    /\ index' = EmptyIndex
    /\ \A p \in Paths : cache_get(p)' = Miss

\* C18 (as claimed): clear returns the number of entries that were in the
\* index; afterwards the index is empty, no content file of a former entry
\* remains and get misses for every file cached before.
C18_ClearRemovesFiles ==
    [][cacheLast'.op = "clear"
          => /\ ClearEmptiesIndex
             /\ \A k \in DOMAIN index : ~cacheFiles'[index[k].cache_key].exists]_vars

\* C18 (amended): the same, but the content files are gone only when removing
\* them did not fail: an OSError of unlink is swallowed and leaves the file as
\* it was, with the index empty and get a miss all the same.
C18_ClearEmptiesIndex ==
    [][cacheLast'.op = "clear"
          => /\ ClearEmptiesIndex
             /\ \A k \in DOMAIN index :
                   IF cacheLast'.io = "unlink"
                   THEN cacheFiles'[index[k].cache_key] = cacheFiles[index[k].cache_key]
                   ELSE ~cacheFiles'[index[k].cache_key].exists]_vars

\* C18 witness: clear has just emptied an index of two entries and returned
\* 2; neither content file is left.
C18_Witness ==
    /\ cacheLast.op = "clear"
    /\ cacheLast.result = 2
    /\ cacheLast.io = "none"
    /\ index = EmptyIndex
    /\ \A ck \in CacheKeys : ~cacheFiles[ck].exists

\* index.json is never a partly written file
DiskIndexComplete == stDisk.state \in {"absent", "complete"}

\* index.json changes only by a rename that puts a completely written
\* temporary file in its place
DiskChangesByRename ==
    stDisk' # stDisk
        => \E w \in Workers :
              /\ stPc[w] = "dumped" /\ stPc'[w] = "done"
              /\ stTemp[w].state = "complete"
              /\ stDisk' = stTemp[w]

\* C15: at every point of set, invalidate and clear, a crash at any step
\* included, index.json on disk is the complete previous index or the complete
\* new index, never a partly written one.
C15_AtomicIndexUpdate == [](DiskIndexComplete) /\ [][DiskChangesByRename]_vars

\* C15 witness: the process was killed while a temporary file was partly
\* written; index.json is the complete index of before.
C15_Witness ==
    /\ \A w \in Workers : stPc[w] = "crashed"
    /\ \E w \in Workers : stTemp[w].state = "partial" /\ stTemp[w].entries # EmptyIndex
    /\ stDisk = CompleteJson(BothCached)

\* what get returns for a worker's file in a cache freshly loaded from the directory
FreshGet(w) ==
    IF /\ FileOf(w) \in DOMAIN load_index(stDisk)
       /\ load_index(stDisk)[FileOf(w)].hash = HashOfBytes("bytes1")
    THEN ReadCacheFile(stFiles[FileOf(w)])
    ELSE Miss

\* C16 (as claimed): when two parallel conversions of different files each
\* call set, in any interleaving, on one shared cache or on two caches over
\* the same directory, neither call raises and afterwards both entries are
\* there: a cache freshly loaded from the directory hits for both files, each
\* with its own content.
C16_ConcurrentSetsBothStored ==
    (\A w \in Workers : stOp[w] = "set")
        => /\ \A w \in Workers : stPc[w] # "raised"
           /\ (\A w \in Workers : stPc[w] = "done")
                 => \A w \in Workers :
                       FreshGet(w) = Hit(ReadText(WriteText(ContentOf(w), linesep)))

-----------------------------------------------------------------------------
(* Claims about ConverterRegistry                                          *)

\* the registered names whose class supports the extension
SupportingNames(ext) == {n \in DOMAIN regClass : supports(regClass[n], ext)}

\* the position of x in seq
Pos(seq, x) == CHOOSE i \in 1..Len(seq) : seq[i] = x

BuiltinRegistrations ==
    /\ regClass = [n \in Names |->
                     CASE n = "pandoc" -> "PandocConverter"
                       [] n = "llm" -> "LLMConverter"
                       [] n = "llamaparse" -> "LlamaParseConverter"]
    /\ regPriority = [n \in Names |->
                        CASE n = "pandoc" -> 10 [] n = "llm" -> 50 [] n = "llamaparse" -> 30]

\* C4: whatever was registered and in whatever order, auto_select(ext) returns
\* an instance of a registered converter that supports ext and whose priority
\* is the minimum among the registered converters supporting ext; with the
\* built-in registrations .docx gives Pandoc and .pdf gives LlamaParse.
C4_PrioritySelection ==
    /\ \A e \in Exts :
          LET S == SupportingNames(e)
              r == auto_select(e)
          IN  S # {} =>
                 /\ ~r.raised
                 /\ r.name \in S
                 /\ r.class = regClass[r.name]
                 /\ supports(r.class, e)
                 /\ \A n \in S : regPriority[r.name] <= regPriority[n]
    /\ BuiltinRegistrations =>
          /\ auto_select(".docx").class = "PandocConverter"
          /\ auto_select(".pdf").class = "LlamaParseConverter"

\* C4 witness: auto_select was called for an extension that three converters
\* with the priorities 10, 30 and 50 support, the priority-10 one was not
\* registered first, and it is the one returned.
C4_Witness ==
    /\ regLast.op = "auto_select"
    /\ LET S == SupportingNames(regLast.arg)
           r == auto_select(regLast.arg)
       IN  /\ Cardinality(S) = 3
           /\ {regPriority[n] : n \in S} = {10, 30, 50}
           /\ ~r.raised
           /\ regPriority[r.name] = 10
           /\ regOrder[1] # r.name

\* the names that support ext with the lowest priority among those that do
Tied(ext) ==
    {n \in SupportingNames(ext) :
        \A m \in SupportingNames(ext) : regPriority[n] <= regPriority[m]}

\* C5: among the converters that support the extension with equal lowest
\* priority, auto_select returns the one whose name was registered first; a
\* later re-registration of a name does not change its place in that order.
C5_TieBreak ==
    \A e \in Exts :
        SupportingNames(e) # {} =>
            LET r == auto_select(e) IN
            /\ ~r.raised
            /\ r.name \in Tied(e)
            /\ \A n \in Tied(e) : Pos(firstOrder, r.name) <= Pos(firstOrder, n)

\* C5 witness: auto_select was called with two converters tied at the lowest
\* priority; the one returned was registered first and re-registered after the
\* other one was registered.
C5_Witness ==
    /\ regLast.op = "auto_select"
    /\ LET r == auto_select(regLast.arg) IN
       /\ ~r.raised
       /\ \E n \in Tied(regLast.arg) :
             /\ n # r.name
             /\ Pos(firstOrder, r.name) < Pos(firstOrder, n)
             /\ Pos(lastOrder, n) < Pos(lastOrder, r.name)

\* the names whose most recent registration is of a class that supports ext
LatestSupporting(ext) ==
    {n \in DOMAIN lastReg : supports(lastReg[n].class, ext)}

\* C19: after any sequence of register calls, get(name) and create(name) use
\* the class handed to the most recent register call under that name,
\* auto_select picks by the priorities of the most recent registrations, and
\* a register call under a name that is already used is possible (it raises
\* nothing).
C19_LastWriteWins ==
    /\ DOMAIN regClass = DOMAIN lastReg
    /\ \A n \in DOMAIN lastReg :
          /\ get(n) = lastReg[n].class
          /\ ~create(n).raised
          /\ create(n).class = lastReg[n].class
          /\ \A pr \in NewPriorities, cl \in Classes : ENABLED Register(n, pr, cl)
    /\ \A e \in Exts :
          LET r == auto_select(e) IN
          LatestSupporting(e) # {} =>
             /\ ~r.raised
             /\ r.name \in LatestSupporting(e)
             /\ r.class = lastReg[r.name].class
             /\ \A n \in LatestSupporting(e) :
                   lastReg[r.name].priority <= lastReg[n].priority

\* C19 witness: create was called for a name that was registered first and
\* registered again after two other names, the second time with another class
\* than the built-in one and with the priority 50; the instance is of the
\* class of the second registration, and auto_select no longer prefers it.
C19_Witness ==
    /\ regLast = RegOp("create", "pandoc")
    /\ firstOrder = <<"pandoc", "llm", "llamaparse">>
    /\ lastOrder = <<"llm", "llamaparse", "pandoc">>
    /\ lastReg["pandoc"] = [class |-> "LlamaParseConverter", priority |-> 50]
    /\ lastReg["llamaparse"] = [class |-> "LlamaParseConverter", priority |-> 30]
    /\ create("pandoc") = Instance("pandoc", "LlamaParseConverter")
    /\ get("pandoc") = "LlamaParseConverter"
    /\ auto_select(".pdf").name = "llamaparse"

\* a lookup that fails: get or create of a name that is not registered, or
\* auto_select of an extension no registered converter supports
FailedLookup(op) ==
    \/ op.op \in {"get", "create"} /\ op.arg \in Names \ DOMAIN regClass
    \/ op.op = "auto_select" /\ op.arg \in Exts /\ SupportingNames(op.arg) = {}

\* C20: get of an unregistered name gives None, create of an unregistered name
\* raises the unknown-converter ValueError, auto_select of an extension no
\* registered converter supports raises the no-converter ValueError, and a
\* get, create or auto_select call that fails leaves the registry as it was.
C20_LookupFailures ==
    /\ [](/\ \A n \in Names \ DOMAIN regClass :
               /\ get(n) = None
               /\ create(n) = Raised(UnknownConverter)
          /\ \A e \in Exts :
               SupportingNames(e) = {}
                  => auto_select(e) = Raised(NoConverterSupports))
    /\ [][\A op \in {RegOp(o, a) : o \in {"get", "create", "auto_select"},
                                   a \in Names \cup Exts} :
             (regLast' = op /\ FailedLookup(op))
                => UNCHANGED <<regOrder, regClass, regPriority>>]_vars

\* C20 witness: with two converters registered, auto_select was called for an
\* extension neither supports and raised; the third name is not registered,
\* get gives None for it and create raises.
C20_Witness ==
    /\ regLast.op = "auto_select"
    /\ Len(regOrder) = 2
    /\ SupportingNames(regLast.arg) = {}
    /\ regLast.arg # ".xyz"
    /\ auto_select(regLast.arg) = Raised(NoConverterSupports)
    /\ \E n \in Names \ DOMAIN regClass :
          get(n) = None /\ create(n) = Raised(UnknownConverter)

-----------------------------------------------------------------------------
(* Claims about the converters                                             *)

\* the generate calls were made in the order of the configured chain, and
\* every model ahead of a called one was called before it or has no provider
CallsFollowChain ==
    /\ \A i \in 1..Len(cvCalls), j \in 1..Len(cvCalls) :
          i < j => Pos(cvCfg.models, cvCalls[i].model) < Pos(cvCfg.models, cvCalls[j].model)
    /\ \A j \in 1..Len(cvCalls) :
          \A k \in 1..(Pos(cvCfg.models, cvCalls[j].model) - 1) :
              \/ get_provider_for_model(cvCfg.models[k], cvCfg) = "none"
              \/ \E i \in 1..(j - 1) : cvCalls[i].model = cvCfg.models[k]

\* C6 (as claimed): the providers are invoked in chain order, a model is only
\* tried after the models before it ended without a qualifying result or were
\* skipped, and once a model's output qualifies the call returns Success and
\* no later model is invoked.
C6_StopAtFirstQualifying ==
    /\ CallsFollowChain
    /\ \A i \in 1..(Len(cvCalls) - 1) : ~cvCalls[i].qualified
    /\ (cvPc = "done" /\ \E i \in 1..Len(cvCalls) : cvCalls[i].qualified)
          => cvResult.status = "success"

\* C6 (amended): the same, with "qualifies" replaced by "qualifies and was
\* written to the output path"; a qualifying output whose write raises counts
\* as a failed attempt and the next model is tried.
C6_StopAtFirstWritten ==
    /\ CallsFollowChain
    /\ \A i \in 1..(Len(cvCalls) - 1) : ~cvCalls[i].wrote
    /\ \A i \in 1..Len(cvCalls) : cvCalls[i].wrote => cvCalls[i].qualified
    /\ (cvCalls # <<>> /\ cvCalls[Len(cvCalls)].wrote)
          => /\ cvPc = "done"
             /\ cvResult.status = "success"
             /\ cvResult.tool_used = <<"llm/">> \o cvCalls[Len(cvCalls)].model
    /\ (cvConv = "LLMConverter" /\ cvResult.status = "success")
          => (cvCalls # <<>> /\ cvCalls[Len(cvCalls)].wrote)

\* C6 witness: the first model failed, the second model's output qualified
\* and was written, Success was returned and the third model was never called.
C6_Witness ==
    /\ cvPc = "done"
    /\ Len(cvCfg.models) = 3
    /\ Len(cvCalls) = 2
    /\ cvCalls[1].model = cvCfg.models[1]
    /\ cvCalls[2].model = cvCfg.models[2]
    /\ cvCalls[2].wrote
    /\ get_provider_for_model(cvCfg.models[3], cvCfg) # "none"
    /\ cvResult.status = "success"

\* C7: when at least one model was tried and every generate call raised,
\* convert returns a Failed result with a non-empty error message.
C7_ExhaustionFails ==
    (cvPc = "done" /\ cvCalls # <<>> /\ \A i \in 1..Len(cvCalls) : cvCalls[i].raised)
        => /\ cvResult.status = "failed"
           /\ cvResult.error_message.present
           /\ cvResult.error_message.text # <<>>
           /\ ~cvResult.has_output

\* C7 witness: a chain of three models, every call raised, the last one with
\* an empty exception text, and the Failed result is returned.
C7_Witness ==
    /\ cvPc = "done"
    /\ Len(cvCalls) = 3
    /\ \A i \in 1..3 : cvCalls[i].raised
    /\ cvLastError = <<>>
    /\ cvResult.status = "failed"

\* C8 (as claimed): a call's output is accepted iff generate returned and the
\* text is strictly longer than min_content_length; a call with shorter output
\* never gives Success, the loop moves on past its model, and the call ends
\* Failed when no model's output was accepted.
C8_QualifiesIffLonger ==
    /\ \A i \in 1..Len(cvCalls) :
          /\ cvCalls[i].qualified <=>
                (~cvCalls[i].raised /\ Len(cvCalls[i].text) > cvCfg.min_content_length)
          /\ (~cvCalls[i].raised /\ Len(cvCalls[i].text) <= cvCfg.min_content_length)
                => /\ ~cvCalls[i].wrote
                   /\ cvIdx > Pos(cvCfg.models, cvCalls[i].model)
                   /\ cvResult.status = "success" => i < Len(cvCalls)
    /\ (cvPc = "done" /\ cvCalls # <<>> /\ \A i \in 1..Len(cvCalls) : ~cvCalls[i].qualified)
          => cvResult.status = "failed"

\* C8 (amended): a call's output is accepted iff generate returned and the
\* text is non-empty and strictly longer than min_content_length; a call with
\* empty or shorter output never gives Success, the loop moves on past its
\* model, and the call ends Failed when no model's output was accepted.
C8_ShortOutputRejected ==
    /\ \A i \in 1..Len(cvCalls) :
          /\ cvCalls[i].qualified <=>
                /\ ~cvCalls[i].raised
                /\ cvCalls[i].text # <<>>
                /\ Len(cvCalls[i].text) > cvCfg.min_content_length
          /\ (/\ ~cvCalls[i].raised
              /\ \/ cvCalls[i].text = <<>>
                 \/ Len(cvCalls[i].text) <= cvCfg.min_content_length)
                => /\ ~cvCalls[i].wrote
                   /\ cvIdx > Pos(cvCfg.models, cvCalls[i].model)
                   /\ cvResult.status = "success" => i < Len(cvCalls)
    /\ (cvPc = "done" /\ cvCalls # <<>> /\ \A i \in 1..Len(cvCalls) : ~cvCalls[i].qualified)
          => cvResult.status = "failed"

\* C8 witness: the first model returned a non-empty text no longer than the
\* minimum, the next model was tried, its output was accepted and gave Success.
C8_Witness ==
    /\ cvPc = "done"
    /\ Len(cvCalls) = 2
    /\ ~cvCalls[1].raised
    /\ cvCalls[1].text # <<>>
    /\ Len(cvCalls[1].text) <= cvCfg.min_content_length
    /\ cvCalls[2].qualified
    /\ cvResult.status = "success"

\* C9 (as claimed): convert on an existing file whose suffix the converter
\* does not support returns Skipped, and no backend call is made.
C9_UnsupportedIsSkipped ==
    (cvPc = "done" /\ cvSrc.exists /\ ~supports(cvConv, cvSrc.suffix))
        => (cvResult.status = "skipped" /\ ~cvBackendUsed)

\* C11: convert of the fallback-chain converter never raises: an exception of
\* an attempt (provider error, timeout, failure while writing the output) is
\* caught, the next model is tried, and convert returns a result whose status
\* is success, failed or skipped.
C11_NeverRaises ==
    /\ cvPc # "raised"
    /\ \A i \in 1..Len(cvCalls) :
          cvCalls[i].error # "none"
             => /\ cvIdx > Pos(cvCfg.models, cvCalls[i].model)
                /\ cvResult.status = "success" => i < Len(cvCalls)
    /\ (cvConv = "LLMConverter" /\ cvPc = "done")
          => cvResult.status \in {"success", "failed", "skipped"}

\* C11 witness: the first attempt timed out, the second produced a qualifying
\* output whose write failed, the third was tried and convert returned.
C11_Witness ==
    /\ cvPc = "done"
    /\ Len(cvCalls) = 3
    /\ cvCalls[1].raised /\ cvCalls[1].error = "TimeoutException"
    /\ cvCalls[2].qualified /\ ~cvCalls[2].wrote /\ cvCalls[2].error = "OSError"
    /\ cvResult.status \in {"success", "failed"}

\* the fallback loop ran to its end and convert returned the Failed result
ChainExhausted ==
    /\ cvConv = "LLMConverter"
    /\ cvPc = "done"
    /\ cvResult.status = "failed"
    /\ cvResult.tool_used = <<"llm-fallback">>

RECURSIVE LastCaught(_)
\* str(e) of the latest exception among the calls, empty when none raised
LastCaught(calls) ==
    IF calls = <<>> THEN <<>>
    ELSE IF calls[Len(calls)].error # "none" THEN calls[Len(calls)].message
         ELSE LastCaught(SubSeq(calls, 1, Len(calls) - 1))

\* C21 (as claimed): on chain exhaustion the error message reports the
\* failure of the latest attempted model, whether that attempt raised or
\* returned too-short output: the error in the message is the one of the last
\* call made.
C21_LatestFailureReported ==
    (ChainExhausted /\ cvCalls # <<>>)
        => /\ cvCalls[Len(cvCalls)].error # "none"
           /\ cvResult.error_message.text
                 = ExhaustedMessage(cvCalls[Len(cvCalls)].message)

\* C21 (amended): on chain exhaustion the error message is "All models
\* failed. Last error: " followed by the text of the latest exception caught
\* in the loop, empty when no attempt raised; an attempt that returned
\* too-short output leaves the recorded error as it was.
C21_LatestExceptionReported ==
    /\ cvLastError = LastCaught(cvCalls)
    /\ ChainExhausted
          => /\ cvResult.error_message.present
             /\ cvResult.error_message.text = ExhaustedMessage(LastCaught(cvCalls))

\* C21 witness: the first model raised "boom", the second raised with an
\* empty text, the third returned too-short output; the Failed result reports
\* the empty text of the second.
C21_Witness ==
    /\ ChainExhausted
    /\ Len(cvCalls) = 3
    /\ cvCalls[1].raised /\ cvCalls[1].message = <<"boom">>
    /\ cvCalls[2].raised /\ cvCalls[2].message = <<>>
    /\ ~cvCalls[3].raised /\ ~cvCalls[3].qualified
    /\ cvResult.error_message.text = ExhaustedMessage(<<>>)

\* the vendor a model name is routed to
VendorOf(model) ==
    IF Contains(model, "deepseek") THEN "deepseek"
    ELSE IF Contains(model, "llama") \/ Contains(model, "mixtral") \/ Contains(model, "gemma")
         THEN "groq"
         ELSE "gemini"

\* the settings hold a credential for the vendor
HasCredential(vendor, cfg) ==
    CASE vendor = "deepseek" -> cfg.deepseek_api_key
      [] vendor = "groq" -> cfg.groq_api_key
      [] vendor = "gemini" -> cfg.gemini_credential

\* the models of the chain the loop has passed
Passed == {cvCfg.models[i] : i \in 1..(IF cvIdx > Len(cvCfg.models)
                                        THEN Len(cvCfg.models) ELSE cvIdx - 1)}

\* a pass of the loop that made no generate call
SkipStep ==
    /\ cvPc = "chain"
    /\ cvIdx' = cvIdx + 1
    /\ cvCalls' = cvCalls

\* C22 (as claimed): no generate call is made for a model whose vendor has no
\* credential in the settings; the pass over such a model leaves the recorded
\* last error as it was and moves on to the next model.
C22_NoCredentialIsSkipped ==
    cvConv = "LLMConverter"
        => /\ \A i \in 1..Len(cvCalls) :
                 HasCredential(VendorOf(cvCalls[i].model), cvCfg)
           /\ cvLastError = LastCaught(cvCalls)

\* C22 (amended): the same for the vendors whose provider object exists only
\* with a key (DeepSeek, Groq); a model routed to the Gemini provider is
\* always attempted, with or without a credential.
C22_NoKeyIsSkipped ==
    /\ [](cvConv = "LLMConverter"
            => /\ \A i \in 1..Len(cvCalls) :
                     \/ VendorOf(cvCalls[i].model) = "gemini"
                     \/ HasCredential(VendorOf(cvCalls[i].model), cvCfg)
               /\ \A m \in Passed :
                     (VendorOf(m) = "gemini" /\ cvPc # "done")
                        => \E i \in 1..Len(cvCalls) : cvCalls[i].model = m)
    /\ [][SkipStep => (cvLastError' = cvLastError /\ cvPc' = "chain")]_vars

\* C22 witness: the first model raised "boom", the second has no key and was
\* passed without a call, the third was called; between the first and the
\* third call the recorded error stayed "boom".
C22_Witness ==
    /\ Len(cvCfg.models) = 3
    /\ Len(cvCalls) = 2
    /\ cvCalls[1].model = cvCfg.models[1] /\ cvCalls[1].message = <<"boom">>
    /\ VendorOf(cvCfg.models[2]) # "gemini"
    /\ ~HasCredential(VendorOf(cvCfg.models[2]), cvCfg)
    /\ cvCalls[2].model = cvCfg.models[3]
    /\ ~cvCalls[2].raised /\ ~cvCalls[2].qualified
    /\ cvLastError = <<"boom">>

\* C23: every result a converter's convert returns has output_path set iff
\* its status is Success, an error message iff its status is not Success,
\* non-empty content only if its status is Success, and a quality score
\* within 0..100.
C23_ResultInvariant ==
    cvPc = "done"
        => /\ cvResult.status \in {"success", "failed", "skipped"}
           /\ cvResult.has_output <=> cvResult.status = "success"
           /\ cvResult.error_message.present <=> cvResult.status # "success"
           /\ cvResult.content # <<>> => cvResult.status = "success"
           /\ cvResult.quality_score \in 0..100

\* C23 witness: pandoc wrote its output file and reading it back failed; the
\* result is Failed with a message, without output path and content and with
\* the score 0, although the file is there.
C23_Witness ==
    /\ cvPc = "done"
    /\ cvConv = "PandocConverter"
    /\ cvOutFile.exists
    /\ cvResult.status = "failed"
    /\ cvResult.error_message.present
    /\ ~cvResult.has_output
    /\ cvResult.content = <<>>
    /\ cvResult.quality_score = 0

-----------------------------------------------------------------------------
(* Claims about the batch                                                  *)

\* C10: at any moment at most SemCap (10) conversions have entered the gate
\* and not finished, whatever the size of the batch; while SemCap of them are
\* active no further file is admitted.
C10_ConcurrencyBound ==
    /\ nActive <= SemCap
    /\ semValue = SemCap - nActive
    /\ nWaiting + nActive + nFinished = batchSize
    /\ nActive = SemCap => ~ENABLED Acquire

\* C10 witness: a batch of more files than slots with 10 conversions active,
\* files still waiting for a slot and some already finished.
C10_Witness ==
    /\ batchSize > SemCap
    /\ nActive = SemCap
    /\ nWaiting > 0
    /\ nFinished > 0

\* C12 (as claimed): a failing file never aborts the batch, and when
\* process_files returns it has collected exactly one ConversionResult for
\* every file of the batch.
C12_BatchCompletes ==
    /\ batchPc # "crashed"
    /\ batchPc = "returned" => (nCollected = batchSize /\ coroutineAt = 0)

-----------------------------------------------------------------------------
(* Claims about the quality score                                          *)

\* C24: the quality score never gates the outcome: two conversions of the
\* same file under the same settings that meet the same provider failures and
\* outputs of the same lengths, but outputs that differ in headings, tables
\* and non-ASCII letters, are at the same place of the chain, return the same
\* status and the same model's tool name; every score, returned or computed by
\* any converter for any output, lies within 0..100.
C24_ScoreNeverGates ==
    /\ twRun[1].pc = twRun[2].pc
    /\ twRun[1].idx = twRun[2].idx
    /\ twRun[1].status = twRun[2].status
    /\ twRun[1].tool = twRun[2].tool
    /\ \A r \in TwinRuns : twRun[r].score \in 0..100
    /\ \A class \in Classes, t \in TwinTexts :
          calculate_quality(class, t) \in 0..100

\* C24 witness: both conversions returned Success with the same model, and
\* their scores differ.
C24_Witness ==
    /\ \A r \in TwinRuns : twRun[r].pc = "done" /\ twRun[r].status = "success"
    /\ twRun[1].tool = twRun[2].tool
    /\ twRun[1].score < twRun[2].score

-----------------------------------------------------------------------------
(* Claims about the providers                                              *)

\* the outcome of the latest attempt of the call
LastOutcome == pvAttempts[Len(pvAttempts)]

\* the call is one of GeminiProvider.generate and has made an attempt
GeminiCalled == pvProvider = "GeminiProvider" /\ pvAttempts # <<>>

\* C25: one call of GeminiProvider.generate makes at most 3 attempts; every
\* attempt before the latest one failed, so the call stops at its first
\* successful attempt and returns that attempt's text; after a third failed
\* attempt the call ends with an error and no attempt follows.
C25_BoundedRetry ==
    pvProvider = "GeminiProvider"
        => /\ Len(pvAttempts) <= MaxAttempts
           /\ \A i \in 1..(Len(pvAttempts) - 1) :
                 gemini_generate(pvAttempts[i], <<>>).raises
           /\ pvPc = "returned"
                 => /\ ~gemini_generate(LastOutcome, pvReturn).raises
                    /\ pvReturn = gemini_generate(LastOutcome, pvReturn).text
           /\ pvPc = "raised"
                 => /\ gemini_generate(LastOutcome, <<>>).raises
                    /\ pvError # "none"
           /\ (Len(pvAttempts) = MaxAttempts /\ pvAttempts[MaxAttempts] \in Transient)
                 => pvPc = "raised" /\ ~ENABLED ProviderNext
           /\ (pvPc = "ready" /\ pvAttempts # <<>>)
                 => /\ Len(pvAttempts) < MaxAttempts
                    /\ gemini_generate(LastOutcome, <<>>).raises

\* C25 witness: three attempts met transport failures and the call ended with
\* tenacity's RetryError.
C25_Witness ==
    /\ pvProvider = "GeminiProvider"
    /\ Len(pvAttempts) = MaxAttempts
    /\ \A i \in 1..MaxAttempts : pvAttempts[i] \in Transient
    /\ pvPc = "raised"
    /\ pvError = "RetryError"

\* C25 witness: the call returned the text of its second attempt after a
\* transient failure of the first.
C25_WitnessSecondTry ==
    /\ pvProvider = "GeminiProvider"
    /\ Len(pvAttempts) = 2
    /\ pvAttempts[1] \in Transient
    /\ pvAttempts[2] = "ok"
    /\ pvPc = "returned"
    /\ pvReturn # <<>>

\* C26: an attempt of the retrying provider that fails for a client-side
\* reason (the request is rejected as malformed, or the failure lies before
\* or after the HTTP exchange) is the call's only attempt: the call has
\* failed with it and no further request follows.
C26_NoRetryOnClientError ==
    GeminiCalled
        => \A i \in 1..Len(pvAttempts) :
              pvAttempts[i] \in ClientSide
                  => i = 1 /\ Len(pvAttempts) = 1 /\ pvPc = "raised"

\* the outcomes the failure contract names: an error status, a body without
\* a candidate / choice text, a text payload that cannot be decoded
ContractFailures ==
    {"http_4xx", "http_5xx", "bad_json", "no_candidates", "bad_shape",
     "null_text", "undecodable_input"}

\* C27: a call of a provider's generate whose latest attempt met an error
\* status, a malformed body or an undecodable text payload does not return a
\* text; so no such attempt hands the fallback chain a text that qualifies,
\* for any minimum content length.
C27_FailuresRaise ==
    (pvAttempts # <<>> /\ LastOutcome \in ContractFailures)
        => /\ pvPc # "returned"
           /\ \A min \in MinLens : pvPc = "returned" => ~Qualifies(pvReturn, min)

-----------------------------------------------------------------------------
(* Claims about the Success path of the fallback chain                     *)

\* the frontmatter generated for a source file and a tool identifier
GeneratedFrontmatter(suffix, tool) ==
    <<"-", "-", "-", "source_file: ", suffix, "conversion_tool: ">> \o tool
        \o <<"-", "-", "-", "LF", "LF">>

\* C28: whenever the fallback chain returns Success, the returned content is
\* the generated frontmatter, naming the source file and the tool identifier
\* llm/<model> of the model whose output qualified, followed by that output;
\* tool_used is that identifier and the output file holds exactly the
\* returned content; so also for an output that begins with "---".
C28_SuccessCarriesFrontmatter ==
    (cvConv = "LLMConverter" /\ cvPc = "done" /\ cvResult.status = "success")
        => LET call == cvCalls[Len(cvCalls)]
               tool_name == <<"llm/">> \o call.model
           IN  /\ call.qualified
               /\ cvResult.tool_used = tool_name
               /\ cvResult.content
                     = GeneratedFrontmatter(cvSrc.suffix, tool_name) \o call.text
               /\ cvOutFile = File(cvResult.content)

-----------------------------------------------------------------------------
(* Claims about the convert command on one file                            *)

\* the i-th run converted the file successfully
Converted(i) == fsLog[i].status = "success"

\* the file's bytes are at run i what they were at run j
Unchanged(j, i) == \A k \in (j + 1)..i : ~fsLog[k].changed

\* C29: after a successful conversion the cache holds a result; a run that
\* follows a successful conversion of the file with the file's bytes unchanged
\* calls no provider and no local tool.
C29_CacheSkipsRedundantWork ==
    \A i \in 1..Len(fsLog) :
        /\ Converted(i) => \E p \in Paths : cache_get(p).hit
        /\ (\E j \in 1..(i - 1) : Converted(j) /\ Unchanged(j, i)) => ~fsLog[i].ran

\* the converter class an explicitly named tool stands for
NamedClass(tool) ==
    CASE tool = "pandoc" -> "PandocConverter"
      [] tool \in {"gemini", "llm"} -> "LLMConverter"
      [] tool = "llamaparse" -> "LlamaParseConverter"

\* C30: the converter convert_file_safe uses for a file of the batch is, in
\* auto mode, of the class ConverterRegistry.auto_select returns for the
\* file's extension, and under an explicitly named tool of that tool's class.
C30_RegistrySelectedConverter ==
    \A i \in 1..Len(fsLog) :
        IF fsTool = "auto"
        THEN fsLog[i].converter = auto_select(fsSuffix).class
        ELSE fsLog[i].converter = NamedClass(fsTool)

-----------------------------------------------------------------------------
(* Claims about selection by availability                                  *)

\* the settings with the given LlamaParse key and pandoc installation
Backends(lk, pi) == Config(<<>>, FALSE, FALSE, FALSE, 1, lk, pi)

\* a registered converter supports ext and its backend is available
SomeAvailable(ext, cfg) ==
    \E n \in DOMAIN regClass :
        supports(regClass[n], ext) /\ is_available(regClass[n], cfg)

\* C31: whatever API keys and tools are there, the converter auto_select
\* returns for an extension has an available backend whenever some registered
\* converter that supports the extension has one.
C31_BestAvailable ==
    \A lk \in BOOLEAN, pi \in BOOLEAN :
        regLast.op = "auto_select"
            => LET r == auto_select(regLast.arg) IN
               (~r.raised /\ SomeAvailable(regLast.arg, Backends(lk, pi)))
                   => is_available(r.class, Backends(lk, pi))

-----------------------------------------------------------------------------
(* Claims about the local tool                                             *)

\* convert of the Pandoc converter returned after starting the subprocess
PandocRan == cvConv = "PandocConverter" /\ cvPc = "done" /\ cvProc.state # "none"

\* the run exceeded the timeout: the subprocess has no return code
TimedOut == PandocRan /\ cvProc.returncode = "none"

\* the run ended with a return code other than 0
ExitedNonZero == PandocRan /\ cvProc.returncode = "nonzero"

\* the result is Failed, and no subprocess is left running
FailedAndStopped ==
    /\ cvResult.status = "failed"
    /\ cvProc.state \in {"killed", "exited"}

C32_WitnessTimeout ==
    /\ TimedOut
    /\ cvProc.state = "killed"
    /\ cvResult = Failed(<<"pandoc">>, <<"Pandoc conversion timed out">>)

-----------------------------------------------------------------------------
(* Claims about the checks before a conversion                             *)

C33_WitnessNotInstalled ==
    /\ cvPc = "done"
    /\ cvConv = "PandocConverter"
    /\ cvSrc = [exists |-> TRUE, suffix |-> ".html"]
    /\ ~cvCfg.pandoc_installed
    /\ cvResult.status = "failed"

-----------------------------------------------------------------------------
(* Claims about the routing                                                *)

\* the provider attribute of the converter that belongs to a vendor
ProviderOf(vendor) ==
    CASE vendor = "deepseek" -> "deepseek_provider"
      [] vendor = "groq" -> "groq_provider"
      [] vendor = "gemini" -> "gemini_provider"

\* C34: the routing is a function of the model name: every call for a name
\* containing "deepseek" goes to the DeepSeek provider, otherwise for a name
\* containing "llama", "mixtral" or "gemma" to the Groq provider, otherwise to
\* the Gemini provider, never to the provider of another vendor (without the
\* vendor's key there is no provider to go to); two calls for the same name
\* give the same provider, whatever was routed before.
C34_RoutingByName ==
    /\ \A i \in 1..Len(rtLog) :
          LET vendor == VendorOf(rtLog[i].model) IN
          /\ rtLog[i].provider \in {ProviderOf(vendor), "none"}
          /\ rtLog[i].provider = "none"
                <=> (vendor # "gemini" /\ ~HasCredential(vendor, rtCfg))
    /\ \A i \in 1..Len(rtLog), j \in 1..Len(rtLog) :
          rtLog[i].model = rtLog[j].model => rtLog[i].provider = rtLog[j].provider

\* C34 witness: with both keys set, a name holding "deepseek" and "llama" was
\* routed after a Groq name, and went to the DeepSeek provider.
C34_Witness ==
    /\ rtCfg.deepseek_api_key /\ rtCfg.groq_api_key
    /\ Len(rtLog) = 2
    /\ rtLog[1].model = <<"llama", "-3.3-70b-versatile">>
    /\ rtLog[1].provider = "groq_provider"
    /\ rtLog[2].model = <<"deepseek", "-r1-distill-", "llama", "-70b">>
    /\ rtLog[2].provider = "deepseek_provider"

-----------------------------------------------------------------------------
(* Claims about the watcher                                                *)

\* the callback was invoked for the path less than a debounce window ago
Recent(path, now) ==
    \E i \in 1..Len(wtCalls) :
        wtCalls[i].path = path /\ now - wtCalls[i].at < DEBOUNCE_SECONDS

\* two callbacks for one path are at least a debounce window apart, and every
\* callback is for a file with a supported extension
OncePerWindow ==
    /\ \A i \in 1..Len(wtCalls), j \in 1..Len(wtCalls) :
          (i < j /\ wtCalls[i].path = wtCalls[j].path)
              => wtCalls[j].at - wtCalls[i].at >= DEBOUNCE_SECONDS
    /\ \A i \in 1..Len(wtCalls) :
          /\ WatchSupported(wtCalls[i].path)
          /\ Event(wtCalls[i].path, FALSE, wtCalls[i].at) \in Range(wtEvents)

\* what the handling of one event does: an event for a directory or an
\* unsupported extension changes neither the callbacks nor the debounce state;
\* an event for a supported file triggers nothing when the callback ran for
\* that path within the window, and else triggers the callback, whatever was
\* triggered for other paths
EventStep ==
    Len(wtEvents') = Len(wtEvents) + 1
        => LET ev == wtEvents'[Len(wtEvents')] IN
           IF ev.is_directory \/ ~WatchSupported(ev.path)
           THEN UNCHANGED <<wtLast, wtCalls>>
           ELSE IF Recent(ev.path, ev.at)
           THEN UNCHANGED <<wtLast, wtCalls>>
           ELSE /\ wtCalls' = Append(wtCalls, FileChange(ev.path, ev.at))
                /\ \A p \in WatchPaths \ {ev.path} : wtLast'[p] = wtLast[p]

\* C35: for each path with a supported extension the change callback fires at
\* most once within a debounce window: after a trigger for a path further
\* events for it within the window trigger nothing; events for another path
\* are not held back by it; events for directories and unsupported extensions
\* trigger nothing and leave the debounce state as it is.
C35_Debounce == [](OncePerWindow) /\ [][EventStep]_vars

\* C35 witness: the callback ran for a.pdf; half a second later an event for
\* a.pdf triggered nothing and an event for b.docx triggered the callback.
C35_Witness ==
    /\ Len(wtEvents) = 3
    /\ wtEvents[1].path = "a.pdf" /\ ~wtEvents[1].is_directory
    /\ wtEvents[2] = Event("a.pdf", FALSE, wtEvents[1].at + 1)
    /\ wtEvents[3] = Event("b.docx", FALSE, wtEvents[1].at + 1)
    /\ wtCalls = <<FileChange("a.pdf", wtEvents[1].at),
                   FileChange("b.docx", wtEvents[1].at + 1)>>

\* the latest event for the file is later than every callback made for it
Owed(path) ==
    /\ \E i \in 1..Len(wtEvents) :
          wtEvents[i].path = path /\ ~wtEvents[i].is_directory
    /\ \A j \in 1..Len(wtCalls) :
          wtCalls[j].path = path
              => \E i \in 1..Len(wtEvents) :
                    /\ wtEvents[i].path = path /\ ~wtEvents[i].is_directory
                    /\ wtEvents[i].at > wtCalls[j].at

\* C39: the watcher does not lose the final change: for every supported file,
\* whenever its latest event is later than every callback made for it, the
\* callback is eventually invoked at or after that event.
C39_FinalChangeConverted ==
    \A p \in {q \in WatchPaths : WatchSupported(q)} : Owed(p) ~> ~Owed(p)

-----------------------------------------------------------------------------
(* Claims about the cache directory                                        *)

\* every index entry has its content file, named by the key derived from the
\* entry's path
Backed ==
    \A k \in DOMAIN index :
        /\ index[k].cache_key = get_cache_key(k)
        /\ cacheFiles[index[k].cache_key].exists

\* no content file is there for a path without an index entry
NoOrphans ==
    \A k \in Keys : cacheFiles[get_cache_key(k)].exists => k \in DOMAIN index

\* the step is a call of set, invalidate or clear
CacheCall == cacheLast'.op \in {"set", "invalidate", "clear"}

HitStoredForCurrentBytes ==
    \A p \in Paths :
        (cache_get(p).hit /\ cache_get(p).text # <<>>)
            => storedFor[get_cache_key(p)] = srcBytes[Resolve(p)]

\* C37 (as claimed): whenever get(F) hits, in the instance that made the set
\* or in one built later on the same directory, the content it returns was
\* passed to a set(F, ...) made while F had its current bytes; no crash and no
\* failed save of the index between the write of the content file and the
\* rename of the index lets get return content stored for other bytes of F.
C37_HitIsForCurrentBytes == HitStoredForCurrentBytes


\* ---- Claims about the output files ----

\* the directory a source's output goes to
OutputDirOf(file) == get_output_path(file, outDir).dir

\* C38 (as claimed): two distinct source files of one batch that are converted
\* into the same output directory get distinct output paths, so the Markdown
\* file a conversion wrote is not overwritten by another conversion; also for
\* names that differ only in letter case, in space versus underscore, or in
\* the extension.
C38_OutputsIsolated ==
    \A a \in outWritten, b \in outWritten :
        (a # b /\ OutputDirOf(a) = OutputDirOf(b))
            => /\ get_output_path(a, outDir) # get_output_path(b, outDir)
               /\ MarkdownFile(get_output_path(a, outDir), a) \in outFiles

====
